---- MODULE Spec2Model ----
(***************************************************************************)
(* State-machine model of the session-authenticated tool servers of        *)
(* SmartAssistant: the QuickBooks MCP server (mcp/src/index.ts, here       *)
(* src/unnamed/part_001), the Housecall Pro MCP server                     *)
(* (src/unnamed/part_012), the Supabase token store (src/db.ts, here       *)
(* src/unnamed/part_002) and the parts of the backend that mint session    *)
(* tokens and write credentials (src/backend/index.ts).                    *)
(*                                                                         *)
(* One behaviour is one tool-server process (`server`) together with the   *)
(* shared token table.  Every await of the source is a separate step.      *)
(***************************************************************************)
EXTENDS Integers, Sequences, FiniteSets, TLC

(* ------------------------------ bounds -------------------------------- *)
\* streams opened by GET /sse in one behaviour
MaxStreams == 2
\* tool invocations accepted by POST /messages in one behaviour of Spec
MaxPosts == 1
\* tool invocations in flight together in one behaviour of SpecRace
MaxInv == 2
\* the clock runs over 0..MaxTime (seconds, scaled)
MaxTime == 1
\* OAuth reconnects (GET /oauth/qbo/callback) in one behaviour
MaxReconnect == 1

(* --------------------------- value domains ---------------------------- *)
\* JavaScript null and undefined for string-valued fields
NULL == "null"
Undef == "undefined"
\* JavaScript null and undefined for number-valued fields
NullNum == -1
UndefNum == -2

Nullish(x) == x \in {NULL, Undef}
NullishNum(n) == n \in {NullNum, UndefNum}
\* x ?? d
Coalesce(x, d) == IF Nullish(x) THEN d ELSE x
CoalesceNum(n, d) == IF NullishNum(n) THEN d ELSE n
\* !x for a string-or-null value
Falsy(x) == x \in {NULL, Undef, ""}

QB == "quickbooks-mcp"
HP == "housecallpro-mcp"
Servers == {QB, HP}

\* the tenants' ids as the token store keys them
Tenants == {"1", "2"}

(* ------------------------ session tokens (JWT) ------------------------ *)
\* The userId claim is a number, a string or absent (jwt payload, part_001:46).
Num(n) == [t |-> "num", n |-> n, s |-> ""]
Str(s) == [t |-> "str", n |-> 0, s |-> s]
Absent == [t |-> "absent", n |-> 0, s |-> ""]
UserIdClaims == {Num(0), Num(1), Num(2), Str(""), Str("1"), Str("2"), Absent}

\* !decoded.userId
FalsyClaim(c) ==
    \/ c.t = "absent"
    \/ c.t = "num" /\ c.n = 0
    \/ c.t = "str" /\ c.s = ""

\* String(decoded.userId): decimal digits of a number, a string as it is
DecimalString(n) ==
    CASE n = 0 -> "0"
      [] n = 1 -> "1"
      [] n = 2 -> "2"
      [] OTHER -> "NaN"

ToStringClaim(c) ==
    CASE c.t = "num" -> DecimalString(c.n)
      [] c.t = "str" -> c.s
      [] OTHER -> Undef

Audiences == {"mcp", QB, HP}
Issuers == {"backend", "other"}
ExpTimes == 0..(MaxTime + 1)

\* A well-formed JWT: its claims and whether its HS256 signature was made with
\* SESSION_JWT_SECRET.
Jwt(u, a, i, e, good) ==
    [wellFormed |-> TRUE, userId |-> u, aud |-> a, iss |-> i, exp |-> e, sigOk |-> good]
\* A string that is no JWT at all (and the empty string)
Garbage == [wellFormed |-> FALSE, userId |-> Absent, aud |-> "", iss |-> "", exp |-> 0, sigOk |-> FALSE]


(* ----------------------------- HTTP requests -------------------------- *)
\* A header value: absent, the empty string, or <prefix><token text>.
NoHeader == [kind |-> "absent", prefix |-> "", tok |-> Garbage]
EmptyHeader == [kind |-> "empty", prefix |-> "", tok |-> Garbage]
Header(p, t) == [kind |-> "value", prefix |-> p, tok |-> t]
Prefixes == {"", "Bearer ", "bearer ", "BEARER ", "Basic "}

\* raw.toLowerCase() on the prefix
ToLowerCase(p) ==
    CASE p = "Bearer " -> "bearer "
      [] p = "BEARER " -> "bearer "
      [] p = "Basic " -> "basic "
      [] OTHER -> p

\* variant: a ?? b, the first header that is there at all
HeaderOrNullish(a, b) == IF a.kind # "absent" THEN a ELSE b

\* a || b on header values: the first that is a non-empty string
HeaderOr(a, b) == IF a.kind = "value" THEN a ELSE b

\* raw.toLowerCase().startsWith("bearer ") ? raw.slice(7) : raw
\* (a raw value with any other prefix is no JWT; the empty string is none either)
StripBearer(h) ==
    IF h.kind # "value" THEN Garbage
    ELSE IF ToLowerCase(h.prefix) = "bearer " THEN h.tok
    ELSE IF h.prefix = "" THEN h.tok
    ELSE Garbage

\* sessionId 0 stands for a request without ?sessionId= (it becomes "default")
DefaultSid == 0
Request(a, x, sid) == [authorization |-> a, xsession |-> x, sessionId |-> sid]

\* The response object of one request: how often a response was sent, and the last.
FreshRes == [sent |-> 0, status |-> 0, body |-> ""]
Send(res, status, body) == [sent |-> res.sent + 1, status |-> status, body |-> body]
headersSent(res) == res.sent > 0

(* --------------------------- requireSession --------------------------- *)
\* No verified session (requireSession returned null; no store bound)
NoCtx == ""

\* variant: a verifier that ignores exp
JwtVerifyMutNoExp(token, t, checkAud, aud, checkIss, iss) ==
    /\ token.wellFormed
    /\ token.sigOk
    /\ checkAud => token.aud = aud
    /\ checkIss => token.iss = iss

\* jsonwebtoken's verify(token, secret, options): TRUE when it returns the payload.
\* exp is compared as clockTimestamp >= exp; audience and issuer only when the
\* option is given.
JwtVerify(token, t, checkAud, aud, checkIss, iss) ==
    /\ token.wellFormed
    /\ token.sigOk
    /\ ~(t >= token.exp)
    /\ checkAud => token.aud = aud
    /\ checkIss => token.iss = iss

\* SESSION_JWT_ISSUER of the Housecall Pro server (its default)
SESSION_JWT_ISSUER == "backend"

\* The options each server passes to jwt.verify.
VerifyOptions(srv) ==
    IF srv = HP
    THEN [checkAud |-> TRUE, aud |-> HP, checkIss |-> TRUE, iss |-> SESSION_JWT_ISSUER]
    ELSE [checkAud |-> FALSE, aud |-> "", checkIss |-> FALSE, iss |-> ""]

\* requireSession(req, res) of server srv at time t: the context (or NoCtx for
\* null) and the response object as it leaves it.
requireSession(srv, req, res, t) ==
    LET rawHeader == HeaderOr(req.authorization, req.xsession)
        token == StripBearer(rawHeader)
        o == VerifyOptions(srv)
        verified == JwtVerify(token, t, o.checkAud, o.aud, o.checkIss, o.iss)
    IN  IF verified /\ ~FalsyClaim(token.userId)
        THEN [ctx |-> ToStringClaim(token.userId), res |-> res]
        ELSE [ctx |-> NoCtx,
              res |-> IF ~headersSent(res) THEN Send(res, 401, "invalid_session") ELSE res]

(* ------------------------------ Token Store --------------------------- *)
\* The "tokens" table is a set of rows; id, created_at and updated_at of
\* TokenRow are not read by any code and are left out.
TokenRow(u, p, a, r, realm, e) ==
    [user_id |-> u, provider |-> p, access_token |-> a, refresh_token |-> r,
     realm_id |-> realm, expires_at |-> e]

\* getTokens' result for "no row"
NoRow ==
    [userId |-> "", provider |-> "", access_token |-> "", refresh_token |-> NULL,
     realmId |-> NULL, expires_at |-> NullNum]

normalize(row) ==
    [userId |-> row.user_id, provider |-> row.provider, access_token |-> row.access_token,
     refresh_token |-> Coalesce(row.refresh_token, NULL),
     realmId |-> Coalesce(row.realm_id, NULL),
     expires_at |-> CoalesceNum(row.expires_at, NullNum)]

\* select * ... eq(user_id) eq(provider)
SelectEq(table, userId, provider) ==
    {r \in table : r.user_id = userId /\ r.provider = provider}

\* .single(): the one row; no row or several rows are error PGRST116, which
\* getTokens turns into null
getTokens(table, userId, provider) ==
    LET found == SelectEq(table, userId, provider)
    IN  IF Cardinality(found) = 1 THEN normalize(CHOOSE r \in found : TRUE) ELSE NoRow

\* supabase upsert(payload, {onConflict: "user_id,provider"}) without the conflict
\* variant: a plain insert
SupabaseInsert(table, payload) == table \cup {payload}

\* variant: an upsert that leaves an existing row of the key as it is
SupabaseUpsertIgnore(table, payload) ==
    IF \E r \in table : r.user_id = payload.user_id /\ r.provider = payload.provider
    THEN table
    ELSE table \cup {payload}

\* supabase upsert(payload, {onConflict: "user_id,provider"}): insert, or on a row
\* with the same (user_id, provider) set every column of the payload
SupabaseUpsert(table, payload) ==
    {r \in table : ~(r.user_id = payload.user_id /\ r.provider = payload.provider)}
        \cup {payload}

\* An argument of upsertTokens: refresh_token, realmId, expires_at may be undefined
UpsertArg(u, p, a, r, realm, e) ==
    [userId |-> u, provider |-> p, access_token |-> a, refresh_token |-> r,
     realmId |-> realm, expires_at |-> e]

UpsertPayload(row) ==
    TokenRow(row.userId, row.provider, row.access_token,
             Coalesce(row.refresh_token, NULL), Coalesce(row.realmId, NULL),
             CoalesceNum(row.expires_at, NullNum))

upsertTokens(table, row) == SupabaseUpsert(table, UpsertPayload(row))

deleteTokens(table, userId, provider) ==
    {r \in table : ~(r.user_id = userId /\ r.provider = provider)}

(* -------------------------------- state ------------------------------- *)
VARIABLES
    server,            \* which tool server this process is
    now,               \* Math.floor(Date.now() / 1000)
    tokens,            \* the Supabase "tokens" table
    activeTransports,  \* keys of the activeTransports map (session ids)
    streams,           \* every GET /sse stream opened so far, by session id
    invs,              \* every tool invocation accepted so far
    reconnects,        \* OAuth callbacks completed so far
    probe              \* the last request or store call and its result (observer)

vars == <<server, now, tokens, activeTransports, streams, invs, reconnects, probe>>
core == <<server, now, tokens, activeTransports, streams, invs, reconnects>>

Idle == [kind |-> "idle"]

(* ---------------------- request-scoped context ------------------------ *)
\* ctxStore.run(sess, fn): the store every continuation started inside fn sees
ctxStoreRun(sess) == sess
\* ctxStore.getStore() inside the asynchronous chain of invocation v
getStore(v) == v.als

(* ------------------------------ streams ------------------------------- *)
\* transport.sessionId || "default": the SDK draws a fresh UUID per transport
NewSessionId == Len(streams) + 1

Stream(userId) == [tenant |-> userId, open |-> TRUE]

\* variant: a close that leaves the registry as it is
closeHandlerKeep(at, sessionId) == at
\* res.on("close", ...) of GET /sse
closeHandler(at, sessionId) == at \ {sessionId}

\* what GET /sse answers to request r
GetSseRes(r) ==
    LET v == requireSession(server, r, FreshRes, now)
    IN  IF v.ctx = NoCtx THEN v.res ELSE Send(v.res, 200, "event-stream")

\* variant: the transport is registered before the session is verified
GetSseRegisterFirst(r) ==
    LET v == requireSession(server, r, FreshRes, now)
    IN  IF v.ctx = NoCtx
        THEN /\ activeTransports' = activeTransports \cup {NewSessionId}
             /\ UNCHANGED <<server, now, tokens, streams, invs, reconnects>>
        ELSE /\ Len(streams) < MaxStreams
             /\ streams' = Append(streams, Stream(v.ctx))
             /\ activeTransports' = activeTransports \cup {NewSessionId}
             /\ UNCHANGED <<server, now, tokens, invs, reconnects>>

\* variant: the transport is not registered when the stream is set up
GetSseRegisterLate(r) ==
    LET v == requireSession(server, r, FreshRes, now)
    IN  IF v.ctx = NoCtx
        THEN UNCHANGED core
        ELSE /\ Len(streams) < MaxStreams
             /\ streams' = Append(streams, Stream(v.ctx))
             /\ UNCHANGED <<server, now, tokens, activeTransports, invs, reconnects>>

\* GET /sse
GetSse(r) ==
    LET v == requireSession(server, r, FreshRes, now)
    IN  IF v.ctx = NoCtx
        THEN UNCHANGED core
        ELSE /\ Len(streams) < MaxStreams
             /\ streams' = Append(streams, Stream(v.ctx))
             /\ activeTransports' = activeTransports \cup {NewSessionId}
             /\ UNCHANGED <<server, now, tokens, invs, reconnects>>

\* the response of stream sid closes (client disconnect or res.end)
CloseStream(sid) ==
    /\ sid \in 1..Len(streams)
    /\ streams[sid].open
    /\ streams' = [streams EXCEPT ![sid].open = FALSE]
    /\ activeTransports' = closeHandler(activeTransports, sid)
    /\ UNCHANGED <<server, now, tokens, invs, reconnects>>

Tick ==
    /\ now < MaxTime
    /\ now' = now + 1
    /\ UNCHANGED <<server, tokens, activeTransports, streams, invs, reconnects>>

(* -------------------------- upstream providers ------------------------ *)
\* What the QuickBooks API can answer to one call:
\*   "ok"             200, a JSON body without a needRefresh member
\*   "ok_needRefresh" 200, a JSON body with a truthy needRefresh member
\*   "ok_notJson"     200, a body that is not JSON (and not empty)
\*   "401"            401
\*   "400_3100"       400 whose text includes "3100"
\*   "400", "500"     any other failure
UpstreamResponses == {"ok", "ok_needRefresh", "ok_notJson", "401", "400_3100", "400", "500"}

RespOk(resp) == resp \in {"ok", "ok_needRefresh", "ok_notJson"}

\* what doFetch throws on resp: the QBO error of a failure, or the SyntaxError of
\* JSON.parse on a 200 whose body is not JSON
thrownError(resp) == IF RespOk(resp) THEN "SyntaxError" ELSE "QBO error"

\* resp.status === 401 || (resp.status === 400 && text.includes("3100"))
isAuthError(resp) == resp = "401" \/ resp = "400_3100"

\* What the Intuit token endpoint can answer to a refresh_token grant.  Every
\* grant yields a fresh access token; it is named after the invocation i that asked
\* and after which of the handler's requests (c = 1, 2) asked.
NewAccessToken(i, c) == <<<<"n1", "m1">>, <<"n2", "m2">>, <<"n3", "m3">>, <<"n4", "m4">>>>[i][c]
NewRefreshToken(i, c) == <<<<"q1", "p1">>, <<"q2", "p2">>, <<"q3", "p3">>, <<"q4", "p4">>>>[i][c]
RefreshOk(a, r, e) ==
    [ok |-> TRUE, json |-> TRUE, access_token |-> a, refresh_token |-> r, expires_in |-> e]
RefreshFail ==
    [ok |-> FALSE, json |-> TRUE, access_token |-> "", refresh_token |-> Undef,
     expires_in |-> UndefNum]
\* 200 with a body resp.json() cannot parse
RefreshNotJson == [RefreshFail EXCEPT !.ok = TRUE, !.json = FALSE]
\* the successful answers: the refresh token rotated or not, expires_in given or not
RefreshData(i, c) ==
    {RefreshOk(NewAccessToken(i, c), r, e) :
        r \in {Undef, NewRefreshToken(i, c)}, e \in {UndefNum, 0, 1}}
\* No provider honours a grant that carries no refresh token ("null").
RefreshResponses(refresh_token, i, c) ==
    {RefreshFail, RefreshNotJson} \cup (IF Falsy(refresh_token) THEN {} ELSE RefreshData(i, c))

(* --------------------------- tool invocations ------------------------- *)
QbTools == {"get_customer_by_id", "update_customer"}
HpTools == {"get_customer"}
ToolsOf(srv) == IF srv = HP THEN HpTools ELSE QbTools

NoPayload == UpsertArg("", "", "", NULL, NULL, NullNum)

\* one entry of an invocation's log of store and HTTP calls
Ev(e, user, tok, resp) == [e |-> e, user |-> user, tok |-> tok, resp |-> resp]

\* The invocation ends with `outcome`; its locals are gone.
Done(v, outcome) ==
    [v EXCEPT !.pc = "done", !.outcome = outcome, !.row = NoRow, !.tok = "",
              !.payload = NoPayload, !.grant = RefreshFail]

\* variant: the entry takes whatever getStore returns as the context
requestEntryUnchecked(v) ==
    [v EXCEPT !.ctx = getStore(v), !.row = NoRow, !.tok = "", !.trace = <<>>,
              !.pc = IF server = HP THEN "hpfetch" ELSE "load"]

\* Entry of qbRequest / hpRequest: read the ambient context, then issue the first
\* call (getTokens for QuickBooks, the HTTP call for Housecall Pro).
requestEntry(v) ==
    LET ctx == getStore(v)
    IN  IF ctx = NoCtx
        THEN Done(v, "Missing request context")
        ELSE [v EXCEPT !.ctx = ctx, !.row = NoRow, !.tok = "", !.trace = <<>>,
                       !.pc = IF server = HP THEN "hpfetch" ELSE "load"]

\* The tool handler starts inside transport.handlePostMessage, that is inside the
\* ctxStore.run of the POST /messages that carried it.
StartTool(sid, sess, tool) ==
    requestEntry([sid |-> sid, als |-> ctxStoreRun(sess), tool |-> tool, call |-> 1,
                  pc |-> "", ctx |-> NoCtx, row |-> NoRow, tok |-> "",
                  payload |-> NoPayload, grant |-> RefreshFail, trace |-> <<>>,
                  outcome |-> "",
                  sent |-> "pending"])

\* variant: a finished invocation's event always goes out
transportSendAlways(strs, v) ==
    IF v.pc = "done" /\ v.sent = "pending" THEN [v EXCEPT !.sent = "sent"] ELSE v

\* transport.send of a finished invocation: the event is written to the response of
\* the stream the transport belongs to, and dropped when that response has closed.
transportSend(strs, v) ==
    IF v.pc = "done" /\ v.sent = "pending"
    THEN [v EXCEPT !.sent = IF strs[v.sid].open THEN "sent" ELSE "dropped"]
    ELSE v

\* the events delivered on stream sid so far
DeliveredOn(sid) ==
    {[by |-> invs[i].als, error |-> invs[i].outcome # "result"] :
        i \in {j \in 1..Len(invs) : invs[j].sid = sid /\ invs[j].sent = "sent"}}

\* A tool handler (and with it qbRequest / hpRequest) called with the ambient
\* context `als`, which is a session or nothing: the call is made on the server
\* of stream sid, in or outside a ctxStore.run.
CallTool(sid, als, tool, cap) ==
    /\ Len(invs) < cap
    /\ sid \in 1..Len(streams)
    /\ tool \in ToolsOf(server)
    /\ invs' = Append(invs, transportSend(streams, StartTool(sid, als, tool)))
    /\ UNCHANGED <<server, now, tokens, activeTransports, streams, reconnects>>

\* variant: the session id is looked up before the token is verified
PostMessagesResLookupFirst(r) ==
    LET v == requireSession(server, r, FreshRes, now)
    IN  IF r.sessionId \notin activeTransports
        THEN Send(FreshRes, 400, "no_active_transport")
        ELSE IF v.ctx = NoCtx THEN v.res
        ELSE Send(v.res, 202, "Accepted")

\* what POST /messages answers to request r
PostMessagesRes(r) ==
    LET v == requireSession(server, r, FreshRes, now)
    IN  IF v.ctx = NoCtx THEN v.res
        ELSE IF r.sessionId \notin activeTransports
             THEN Send(v.res, 400, "no_active_transport")
             ELSE Send(v.res, 202, "Accepted")

\* POST /messages carrying a tools/call for `tool` (the model accepts at most
\* `cap` invocations)
PostMessages(r, tool, cap) ==
    LET v == requireSession(server, r, FreshRes, now)
        sessionId == r.sessionId
    IN  IF v.ctx = NoCtx \/ sessionId \notin activeTransports
        THEN UNCHANGED core
        ELSE /\ Len(invs) < cap
             /\ tool \in ToolsOf(server)
             /\ invs' = Append(invs, transportSend(streams, StartTool(sessionId, v.ctx, tool)))
             /\ UNCHANGED <<server, now, tokens, activeTransports, streams, reconnects>>

\* variant: an invocation that ends without a result ends its stream with it
StepCrash(i, v2) ==
    LET crashed == v2.pc = "done" /\ v2.outcome # "result"
    IN  /\ invs' = [invs EXCEPT ![i] = transportSend(streams, v2)]
        /\ streams' = IF crashed THEN [streams EXCEPT ![v2.sid].open = FALSE] ELSE streams
        /\ activeTransports' = IF crashed THEN closeHandler(activeTransports, v2.sid)
                                ELSE activeTransports
        /\ UNCHANGED <<server, now, reconnects>>

\* invocation i moves to v2 (and its result, if it finished, is sent)
Step(i, v2) ==
    /\ invs' = [invs EXCEPT ![i] = transportSend(streams, v2)]
    /\ UNCHANGED <<server, now, activeTransports, streams, reconnects>>

\* variant: the load asks for an access token only
QbLoadAnyRealm(i) ==
    /\ i \in 1..Len(invs)
    /\ invs[i].pc = "load"
    /\ LET v == invs[i]
           row == getTokens(tokens, v.ctx, "quickbooks")
           logged == [v EXCEPT !.trace = Append(@, Ev("get", row.userId, row.access_token, ""))]
       IN  IF Falsy(row.access_token)
           THEN Step(i, Done(logged, "QuickBooks not connected"))
           ELSE Step(i, [logged EXCEPT !.row = row, !.tok = row.access_token, !.pc = "fetch1"])
    /\ UNCHANGED tokens

\* qbRequest: `const row = await getTokens(ctx.userId, "quickbooks")` returns
QbLoad(i) ==
    /\ i \in 1..Len(invs)
    /\ invs[i].pc = "load"
    /\ LET v == invs[i]
           row == getTokens(tokens, v.ctx, "quickbooks")
           logged == [v EXCEPT !.trace = Append(@, Ev("get", row.userId, row.access_token, ""))]
       IN  IF Falsy(row.access_token) \/ Falsy(row.realmId)
           THEN Step(i, Done(logged, "QuickBooks not connected"))
           ELSE Step(i, [logged EXCEPT !.row = row, !.tok = row.access_token, !.pc = "fetch1"])
    /\ UNCHANGED tokens

\* variant: every failure asks for a refresh when a refresh token is there
doFetchRetryAll(row, resp) ==
    IF ~RespOk(resp)
    THEN IF ~Falsy(row.refresh_token)
         THEN [needRefresh |-> TRUE, thrown |-> FALSE]
         ELSE [needRefresh |-> FALSE, thrown |-> TRUE]
    ELSE IF resp = "ok_notJson" THEN [needRefresh |-> FALSE, thrown |-> TRUE]
    ELSE [needRefresh |-> resp = "ok_needRefresh", thrown |-> FALSE]

\* variant: an authorization failure always asks for a refresh
doFetchAlwaysRefresh(row, resp) ==
    IF ~RespOk(resp)
    THEN IF isAuthError(resp)
         THEN [needRefresh |-> TRUE, thrown |-> FALSE]
         ELSE [needRefresh |-> FALSE, thrown |-> TRUE]
    ELSE IF resp = "ok_notJson" THEN [needRefresh |-> FALSE, thrown |-> TRUE]
    ELSE [needRefresh |-> resp = "ok_needRefresh", thrown |-> FALSE]

\* doFetch of qbRequest on response resp: needRefresh, thrown, or the parsed body
doFetch(row, resp) ==
    IF ~RespOk(resp)
    THEN IF isAuthError(resp) /\ ~Falsy(row.refresh_token)
         THEN [needRefresh |-> TRUE, thrown |-> FALSE]
         ELSE [needRefresh |-> FALSE, thrown |-> TRUE]
    ELSE IF resp = "ok_notJson" THEN [needRefresh |-> FALSE, thrown |-> TRUE]
    ELSE [needRefresh |-> resp = "ok_needRefresh", thrown |-> FALSE]

\* A qbRequest returned `result` to its tool handler: get_customer returns it;
\* update_customer checks the fetched customer and enters its second qbRequest.
Returned(v, hasCustomer) ==
    IF v.tool = "update_customer" /\ v.call = 1
    THEN IF hasCustomer
         THEN requestEntry([v EXCEPT !.call = 2])
         ELSE Done(v, "Could not fetch existing customer or SyncToken.")
    ELSE Done(v, "result")

\* variant: a call that failed is tried again, up to three calls in all
QbFetch1Retry(i, resp, hasCustomer) ==
    /\ i \in 1..Len(invs)
    /\ invs[i].pc = "fetch1"
    /\ LET v == invs[i]
           logged == [v EXCEPT !.trace = Append(@, Ev("fetch", v.ctx, v.tok, resp))]
           result == doFetch(v.row, resp)
       IN  IF result.thrown
           THEN IF Len(logged.trace) < 4 THEN Step(i, logged)
                ELSE Step(i, Done(logged, thrownError(resp)))
           ELSE IF result.needRefresh THEN Step(i, [logged EXCEPT !.pc = "refresh"])
           ELSE Step(i, Returned(logged, hasCustomer))
    /\ UNCHANGED tokens

\* `let result = await doFetch(row.access_token)` returns
QbFetch1(i, resp, hasCustomer) ==
    /\ i \in 1..Len(invs)
    /\ invs[i].pc = "fetch1"
    /\ LET v == invs[i]
           logged == [v EXCEPT !.trace = Append(@, Ev("fetch", v.ctx, v.tok, resp))]
           result == doFetch(v.row, resp)
       IN  IF result.thrown THEN Step(i, Done(logged, thrownError(resp)))
           ELSE IF result.needRefresh THEN Step(i, [logged EXCEPT !.pc = "refresh"])
           ELSE Step(i, Returned(logged, hasCustomer))
    /\ UNCHANGED tokens

\* variant: the refreshed credential is stored under the backend's fixed user id
refreshUpsertArgFixedUser(refresh_token, userId, realmId, data, t) ==
    UpsertArg("1", "quickbooks", data.access_token,
              Coalesce(data.refresh_token, refresh_token),
              Coalesce(realmId, NULL),
              IF data.expires_in # UndefNum /\ data.expires_in # 0
              THEN t + data.expires_in ELSE NullNum)

\* variant: the refresh token that was used is kept even when a new one came
refreshUpsertArgKeepOld(refresh_token, userId, realmId, data, t) ==
    UpsertArg(userId, "quickbooks", data.access_token,
              refresh_token,
              Coalesce(realmId, NULL),
              IF data.expires_in # UndefNum /\ data.expires_in # 0
              THEN t + data.expires_in ELSE NullNum)

\* refreshWithQbo: the upsertTokens argument built from the token endpoint's data
refreshUpsertArg(refresh_token, userId, realmId, data, t) ==
    UpsertArg(userId, "quickbooks", data.access_token,
              Coalesce(data.refresh_token, refresh_token),
              Coalesce(realmId, NULL),
              IF data.expires_in # UndefNum /\ data.expires_in # 0
              THEN t + data.expires_in ELSE NullNum)

\* variant: a refused grant is swallowed and the request goes on to its retry
QbRefreshSwallow(i, data) ==
    /\ i \in 1..Len(invs)
    /\ invs[i].pc = "refresh"
    /\ LET v == invs[i]
           logged == [v EXCEPT !.trace =
                         Append(@, Ev("refresh", v.ctx, v.row.refresh_token,
                                      IF ~data.ok THEN "fail"
                                      ELSE IF ~data.json THEN "notjson" ELSE "ok"))]
       IN  /\ data \in RefreshResponses(v.row.refresh_token, i, v.call)
           /\ IF ~data.ok
              THEN Step(i, [logged EXCEPT !.pc = "reload"])
              ELSE IF ~data.json THEN Step(i, Done(logged, "SyntaxError"))
              ELSE Step(i, [logged EXCEPT
                              !.grant = data,
                              !.payload = refreshUpsertArg(v.row.refresh_token, v.ctx,
                                                           v.row.realmId, data, now),
                              !.pc = "upsert"])
    /\ UNCHANGED tokens

\* refreshWithQbo: the token endpoint answers
QbRefresh(i, data) ==
    /\ i \in 1..Len(invs)
    /\ invs[i].pc = "refresh"
    /\ LET v == invs[i]
           logged == [v EXCEPT !.trace =
                         Append(@, Ev("refresh", v.ctx, v.row.refresh_token,
                                      IF ~data.ok THEN "fail"
                                      ELSE IF ~data.json THEN "notjson" ELSE "ok"))]
       IN  /\ data \in RefreshResponses(v.row.refresh_token, i, v.call)
           /\ IF ~data.ok
              THEN Step(i, Done(logged, "QBO refresh failed"))
              ELSE IF ~data.json THEN Step(i, Done(logged, "SyntaxError"))
              ELSE Step(i, [logged EXCEPT
                              !.grant = data,
                              !.payload = refreshUpsertArg(v.row.refresh_token, v.ctx,
                                                           v.row.realmId, data, now),
                              !.pc = "upsert"])
    /\ UNCHANGED tokens

\* refreshWithQbo: `await upsertTokens({...})` is applied by the store
QbUpsert(i) ==
    /\ i \in 1..Len(invs)
    /\ invs[i].pc = "upsert"
    /\ LET v == invs[i]
       IN  /\ tokens' = upsertTokens(tokens, v.payload)
           /\ Step(i, [v EXCEPT !.trace = Append(@, Ev("upsert", v.payload.userId,
                                                         v.payload.access_token, "")),
                                !.pc = "reload"])

\* variant: the retry reuses the access token loaded before the refresh
QbReloadStale(i) ==
    /\ i \in 1..Len(invs)
    /\ invs[i].pc = "reload"
    /\ LET v == invs[i]
           logged == [v EXCEPT !.trace = Append(@, Ev("get", v.row.userId, v.row.access_token, ""))]
       IN  Step(i, [logged EXCEPT !.tok = v.row.access_token, !.pc = "fetch2"])
    /\ UNCHANGED tokens

\* variant: the retry takes the access token of the refresh response
QbReloadFromGrant(i) ==
    /\ i \in 1..Len(invs)
    /\ invs[i].pc = "reload"
    /\ LET v == invs[i]
           logged == [v EXCEPT !.trace = Append(@, Ev("get", v.ctx, v.grant.access_token, ""))]
       IN  Step(i, [logged EXCEPT !.tok = v.grant.access_token, !.pc = "fetch2"])
    /\ UNCHANGED tokens

\* qbRequest: `const latest = await getTokens(ctx.userId, "quickbooks")` returns
QbReload(i) ==
    /\ i \in 1..Len(invs)
    /\ invs[i].pc = "reload"
    /\ LET v == invs[i]
           latest == getTokens(tokens, v.ctx, "quickbooks")
           logged == [v EXCEPT !.trace = Append(@, Ev("get", latest.userId, latest.access_token, ""))]
       IN  IF Falsy(latest.access_token)
           THEN Step(i, Done(logged, "Refresh succeeded but no access token"))
           ELSE Step(i, [logged EXCEPT !.tok = latest.access_token, !.pc = "fetch2"])
    /\ UNCHANGED tokens

\* variant: a retry that is refused again asks for another refresh
QbFetch2Again(i, resp, hasCustomer) ==
    /\ i \in 1..Len(invs)
    /\ invs[i].pc = "fetch2"
    /\ LET v == invs[i]
           logged == [v EXCEPT !.trace = Append(@, Ev("fetch", v.ctx, v.tok, resp))]
           result == doFetch(v.row, resp)
       IN  IF result.thrown THEN Step(i, Done(logged, thrownError(resp)))
           ELSE IF result.needRefresh THEN Step(i, [logged EXCEPT !.pc = "refresh"])
           ELSE Step(i, Returned(logged, hasCustomer))
    /\ UNCHANGED tokens

\* variant: a retry that is refused again drops the stored credential
QbFetch2Forget(i, resp, hasCustomer) ==
    /\ i \in 1..Len(invs)
    /\ invs[i].pc = "fetch2"
    /\ LET v == invs[i]
           logged == [v EXCEPT !.trace = Append(@, Ev("fetch", v.ctx, v.tok, resp))]
           result == doFetch(v.row, resp)
       IN  IF result.thrown THEN Step(i, Done(logged, thrownError(resp))) /\ UNCHANGED tokens
           ELSE IF result.needRefresh
                THEN /\ Step(i, Done(logged, "Unauthorized after refresh"))
                     /\ tokens' = deleteTokens(tokens, v.ctx, "quickbooks")
           ELSE Step(i, Returned(logged, hasCustomer)) /\ UNCHANGED tokens

\* `result = await doFetch(latest.access_token)` returns
QbFetch2(i, resp, hasCustomer) ==
    /\ i \in 1..Len(invs)
    /\ invs[i].pc = "fetch2"
    /\ LET v == invs[i]
           logged == [v EXCEPT !.trace = Append(@, Ev("fetch", v.ctx, v.tok, resp))]
           result == doFetch(v.row, resp)
       IN  IF result.thrown THEN Step(i, Done(logged, thrownError(resp)))
           ELSE IF result.needRefresh THEN Step(i, Done(logged, "Unauthorized after refresh"))
           ELSE Step(i, Returned(logged, hasCustomer))
    /\ UNCHANGED tokens

\* variant: the call is authenticated with a key kept per tenant
HpFetchTenantKey(i, resp) ==
    /\ i \in 1..Len(invs)
    /\ invs[i].pc = "hpfetch"
    /\ LET v == invs[i]
           row == getTokens(tokens, v.ctx, "housecallpro")
           logged == [v EXCEPT !.trace = Append(@, Ev("fetch", v.ctx, row.access_token, resp))]
       IN  IF ~RespOk(resp)
           THEN Step(i, Done(logged, "Housecall Pro API error"))
           ELSE IF resp = "ok_notJson" THEN Step(i, Done(logged, "SyntaxError"))
           ELSE Step(i, Done(logged, "result"))
    /\ UNCHANGED tokens

\* hpRequest: the Housecall Pro API answers
HpFetch(i, resp) ==
    /\ i \in 1..Len(invs)
    /\ invs[i].pc = "hpfetch"
    /\ LET v == invs[i]
           logged == [v EXCEPT !.trace = Append(@, Ev("fetch", v.ctx, "HP_API_KEY", resp))]
       IN  IF ~RespOk(resp)
           THEN Step(i, Done(logged, "Housecall Pro API error"))
           ELSE IF resp = "ok_notJson" THEN Step(i, Done(logged, "SyntaxError"))
           ELSE Step(i, Done(logged, "result"))
    /\ UNCHANGED tokens

(* ------------------------- backend: OAuth callback -------------------- *)
\* GET /oauth/qbo/callback after a successful code exchange: the backend stores
\* the credential under its fixed userId 1 (the table keys it as "1").
BackendUserId == Num(1)

callbackUpsertArg(data, realmId, t) ==
    UpsertArg(ToStringClaim(BackendUserId), "quickbooks", data.access_token,
              Coalesce(data.refresh_token, NULL), realmId,
              IF data.expires_in # UndefNum /\ data.expires_in # 0
              THEN t + data.expires_in ELSE NullNum)

\* what the code exchange and the redirect deliver
ReconnectData == {RefreshOk("a9", "r9", UndefNum)}
ReconnectRealms == {"realm9"}

OAuthCallback(data, realmId) ==
    /\ server = QB
    /\ reconnects < MaxReconnect
    /\ reconnects' = reconnects + 1
    /\ tokens' = upsertTokens(tokens, callbackUpsertArg(data, realmId, now))
    /\ UNCHANGED <<server, now, activeTransports, streams, invs>>

\* deleteTokens(userId, "quickbooks") called on the shared table by another
\* party (no handler of the servers or of the backend calls it)
Disconnect(userId) ==
    /\ reconnects < MaxReconnect
    /\ reconnects' = reconnects + 1
    /\ tokens' = deleteTokens(tokens, userId, "quickbooks")
    /\ UNCHANGED <<server, now, activeTransports, streams, invs>>

(* ----------------------------- backend: POST /chat ------------------- *)
\* variant: a record with an access token counts as connected whatever its expiry
isQboConnectedAnyExpiry(table, userId, t) ==
    ~Falsy(getTokens(table, ToStringClaim(userId), "quickbooks").access_token)

\* isQboConnected(userId) at time t
isQboConnected(table, userId, t) ==
    LET row == getTokens(table, ToStringClaim(userId), "quickbooks")
    IN  IF Falsy(row.access_token) THEN FALSE
        ELSE IF (row.expires_at # NullNum /\ row.expires_at # 0) /\ row.expires_at <= t
             THEN FALSE
        ELSE TRUE

\* SESSION_TTL_SECONDS on the model's clock
SessionTtl == MaxTime + 1

\* what one POST /chat did: its answer, the token it minted (Garbage for none)
\* and whether it called the LLM API
ChatResult(status, minted, llm) ==
    [kind |-> "chat", status |-> status, minted |-> minted, llm |-> llm]

\* POST /chat with body.message present or not, the LLM API answering `llmOk`
PostChat(hasMessage, llmOk) ==
    /\ probe' =
          IF ~hasMessage THEN ChatResult(400, Garbage, FALSE)
          ELSE IF ~isQboConnected(tokens, BackendUserId, now)
               THEN ChatResult(400, Garbage, FALSE)
          ELSE LET sessionJwt == Jwt(BackendUserId, "mcp", "backend", now + SessionTtl, TRUE)
               IN  ChatResult(IF llmOk THEN 200 ELSE 502, sessionJwt, TRUE)
    /\ UNCHANGED core

(* ------------------------------- inputs ------------------------------- *)
\* userId claims that verify: the backend's number 1 and a string id
GoodUsers == {Num(1), Str("2")}

\* Requests of the concurrency models: a signed, unexpired token per tenant in
\* "Authorization: Bearer", with the audience and issuer both servers accept.
CoreTokens == {Jwt(u, HP, "backend", MaxTime + 1, TRUE) : u \in GoodUsers}
SseRequests ==
    {Request(Header("Bearer ", t), NoHeader, DefaultSid) : t \in CoreTokens}
CoreRefreshData(i) == {RefreshOk(NewAccessToken(i, 1), NewRefreshToken(i, 1), UndefNum)}
CoreRequests ==
    {Request(Header("Bearer ", t), NoHeader, sid) : t \in CoreTokens, sid \in 0..MaxStreams}

\* A tenant's credential as the OAuth callback first stored it
ConnectedRow(u) ==
    IF u = "1" THEN TokenRow(u, "quickbooks", "a1", "r1", "realm1", 0)
               ELSE TokenRow(u, "quickbooks", "b1", "s1", "realm2", 0)
\* the same without a refresh token and without an expiry
BareRow(u) == [ConnectedRow(u) EXCEPT !.refresh_token = NULL, !.expires_at = NullNum]

(* ---------------- streams, message-posts and contexts ----------------- *)
\* Both tenants are connected and their access tokens are accepted upstream:
\* streams open and close, message-posts carry any tenant's token and any session
\* id, and the tool invocations they start interleave at every await.
Init ==
    /\ server \in Servers
    /\ now = 0
    /\ tokens = (IF server = QB THEN {ConnectedRow("1"), ConnectedRow("2")} ELSE {})
    /\ activeTransports = {}
    /\ streams = <<>>
    /\ invs = <<>>
    /\ reconnects = 0
    /\ probe = Idle

Next ==
    \/ \E r \in SseRequests : GetSse(r) /\ UNCHANGED probe
    \/ \E r \in CoreRequests : \E tool \in ToolsOf(server) : PostMessages(r, tool, MaxPosts) /\ UNCHANGED probe
    \/ \E sid \in 1..MaxStreams : CloseStream(sid) /\ UNCHANGED probe
    \/ \E i \in 1..MaxPosts : QbLoad(i) /\ UNCHANGED probe
    \/ \E i \in 1..MaxPosts, resp \in {"ok", "500"} : QbFetch1(i, resp, TRUE) /\ UNCHANGED probe
    \/ \E i \in 1..MaxPosts, resp \in {"ok", "500"} : HpFetch(i, resp) /\ UNCHANGED probe

Spec == Init /\ [][Next]_vars

(* ------------------- concurrent refreshes and the store --------------- *)
\* One open stream per tenant; each message-post carries a token of its own
\* stream's tenant; access tokens may be stale, so invocations of the same or of
\* different tenants refresh concurrently, while the backend may reconnect.
InitRace ==
    /\ server = QB
    /\ now = 0
    /\ tokens = {ConnectedRow("1"), ConnectedRow("2")}
    /\ activeTransports = {1, 2}
    /\ streams = <<Stream("1"), Stream("2")>>
    /\ invs = <<>>
    /\ reconnects = 0
    /\ probe = Idle

OwnToken(r) ==
    /\ r.sessionId \in 1..Len(streams)
    /\ ToStringClaim(r.authorization.tok.userId) = streams[r.sessionId].tenant

NextRace ==
    \/ \E r \in CoreRequests : OwnToken(r) /\ PostMessages(r, "get_customer_by_id", MaxInv) /\ UNCHANGED probe
    \/ \E i \in 1..MaxInv : QbLoad(i) /\ UNCHANGED probe
    \/ \E i \in 1..MaxInv, resp \in {"ok", "401"} : QbFetch1(i, resp, TRUE) /\ UNCHANGED probe
    \/ \E i \in 1..MaxInv : \E data \in CoreRefreshData(i) : QbRefresh(i, data) /\ UNCHANGED probe
    \/ \E i \in 1..MaxInv : QbUpsert(i) /\ UNCHANGED probe
    \/ \E i \in 1..MaxInv : QbReload(i) /\ UNCHANGED probe
    \/ \E i \in 1..MaxInv, resp \in {"ok", "401"} : QbFetch2(i, resp, TRUE) /\ UNCHANGED probe
    \/ \E data \in ReconnectData, realmId \in ReconnectRealms : OAuthCallback(data, realmId) /\ UNCHANGED probe

SpecRace == InitRace /\ [][NextRace]_vars

(* ------------------------ one invocation, any answer ------------------ *)
\* One stream is open for tenant u and one message-post with u's token starts one
\* tool invocation; u's credential is in any of the forms the store can hold, and
\* the QuickBooks API, the token endpoint and the Housecall Pro API answer
\* anything they can.
SoloRows(u) ==
    {{}, {ConnectedRow(u)}, {BareRow(u)},
     {[ConnectedRow(u) EXCEPT !.realm_id = NULL]},
     {[ConnectedRow(u) EXCEPT !.access_token = ""]}}

InitSolo ==
    /\ server \in Servers
    /\ now = 0
    /\ \E u \in Tenants :
          /\ streams = <<Stream(u)>>
          /\ tokens \in (IF server = QB
                         THEN {rows \cup {ConnectedRow(w) : w \in Tenants \ {u}} :
                                  rows \in SoloRows(u)}
                         ELSE {{}})
    /\ activeTransports = {1}
    /\ invs = <<>>
    /\ reconnects = 0
    /\ probe = Idle

NextSolo ==
    \/ \E r \in CoreRequests : \E tool \in ToolsOf(server) :
          OwnToken(r) /\ PostMessages(r, tool, 1) /\ UNCHANGED probe
    \/ Tick /\ UNCHANGED probe
    \/ QbLoad(1) /\ UNCHANGED probe
    \/ \E resp \in UpstreamResponses, c \in BOOLEAN : QbFetch1(1, resp, c) /\ UNCHANGED probe
    \/ \E data \in RefreshData(1, 1) \cup RefreshData(1, 2) \cup {RefreshFail, RefreshNotJson} : QbRefresh(1, data) /\ UNCHANGED probe
    \/ QbUpsert(1) /\ UNCHANGED probe
    \/ QbReload(1) /\ UNCHANGED probe
    \/ \E resp \in UpstreamResponses, c \in BOOLEAN : QbFetch2(1, resp, c) /\ UNCHANGED probe
    \/ \E resp \in UpstreamResponses : HpFetch(1, resp) /\ UNCHANGED probe

SpecSolo == InitSolo /\ [][NextSolo]_vars

\* the steps of the invocation: an awaited Token Store call or HTTP call returns
SoloSteps ==
    \/ QbLoad(1) /\ UNCHANGED probe
    \/ \E resp \in UpstreamResponses, c \in BOOLEAN : QbFetch1(1, resp, c) /\ UNCHANGED probe
    \/ \E data \in RefreshData(1, 1) \cup RefreshData(1, 2) \cup {RefreshFail, RefreshNotJson} : QbRefresh(1, data) /\ UNCHANGED probe
    \/ QbUpsert(1) /\ UNCHANGED probe
    \/ QbReload(1) /\ UNCHANGED probe
    \/ \E resp \in UpstreamResponses, c \in BOOLEAN : QbFetch2(1, resp, c) /\ UNCHANGED probe
    \/ \E resp \in UpstreamResponses : HpFetch(1, resp) /\ UNCHANGED probe

\* The same, every awaited call returning in the end.
SpecSoloFair == InitSolo /\ [][NextSolo]_vars /\ WF_vars(SoloSteps)

(* ----------------- calls one after another, any answer --------------- *)
\* One stream of tenant "1" is open and may close. Tool handlers are called one
\* after another, each once the one before has ended: by a message-post with the
\* tenant's token, or directly with no context bound; the credential is in any
\* form; the APIs serve a call, refuse its token or fail, and the token endpoint
\* grants a refresh (rotating the refresh token) or refuses it.
MaxCalls == 2

CallAnswers == {"ok", "401", "500"}
CallRefreshData(i) ==
    {RefreshOk(NewAccessToken(i, c), NewRefreshToken(i, c), 1) : c \in 1..2} \cup {RefreshFail}

AmbientContexts == {NoCtx}

AllDone == \A i \in 1..Len(invs) : invs[i].pc = "done"

InitCall ==
    /\ server \in Servers
    /\ now = 0
    /\ streams = <<Stream("1")>>
    /\ tokens \in (IF server = QB
                   THEN {rows \cup {ConnectedRow("2")} : rows \in SoloRows("1")}
                   ELSE {{}})
    /\ activeTransports = {1}
    /\ invs = <<>>
    /\ reconnects = 0
    /\ probe = Idle

NextCall ==
    \/ \E r \in CoreRequests : \E tool \in ToolsOf(server) :
          AllDone /\ OwnToken(r) /\ PostMessages(r, tool, MaxCalls) /\ UNCHANGED probe
    \/ \E als \in AmbientContexts : \E tool \in ToolsOf(server) :
          AllDone /\ CallTool(1, als, tool, MaxCalls) /\ UNCHANGED probe
    \/ CloseStream(1) /\ UNCHANGED probe
    \/ \E i \in 1..MaxCalls : QbLoad(i) /\ UNCHANGED probe
    \/ \E i \in 1..MaxCalls, resp \in CallAnswers : QbFetch1(i, resp, TRUE) /\ UNCHANGED probe
    \/ \E i \in 1..MaxCalls : \E data \in CallRefreshData(i) : QbRefresh(i, data) /\ UNCHANGED probe
    \/ \E i \in 1..MaxCalls : QbUpsert(i) /\ UNCHANGED probe
    \/ \E i \in 1..MaxCalls : QbReload(i) /\ UNCHANGED probe
    \/ \E i \in 1..MaxCalls, resp \in CallAnswers : QbFetch2(i, resp, TRUE) /\ UNCHANGED probe
    \/ \E i \in 1..MaxCalls, resp \in CallAnswers : HpFetch(i, resp) /\ UNCHANGED probe

SpecCall == InitCall /\ [][NextCall]_vars

(* ------------------- Housecall Pro, two tenants ---------------------- *)
\* The Housecall Pro server with one open stream per tenant: message-posts carry
\* the token of their stream's tenant, a tool handler may also be called with no
\* context bound, streams may close, and the API answers anything it can. The
\* tenants' QuickBooks credentials are in the store.
InitHp ==
    /\ server = HP
    /\ now = 0
    /\ tokens = {ConnectedRow("1"), ConnectedRow("2")}
    /\ activeTransports = {1, 2}
    /\ streams = <<Stream("1"), Stream("2")>>
    /\ invs = <<>>
    /\ reconnects = 0
    /\ probe = Idle

NextHp ==
    \/ \E r \in CoreRequests : \E tool \in HpTools :
          OwnToken(r) /\ PostMessages(r, tool, MaxInv) /\ UNCHANGED probe
    \/ \E sid \in 1..2 : \E tool \in HpTools :
          CallTool(sid, NoCtx, tool, MaxInv) /\ UNCHANGED probe
    \/ \E sid \in 1..2 : CloseStream(sid) /\ UNCHANGED probe
    \/ \E i \in 1..MaxInv, resp \in UpstreamResponses : HpFetch(i, resp) /\ UNCHANGED probe

SpecHp == InitHp /\ [][NextHp]_vars

(* ---------------------- GET /sse, step by step ------------------------ *)
\* GET /sse in the steps of its handler: the session is verified, the transport
\* registered and the close handler attached (GetSse); server.connect starts the
\* transport, which writes the handshake carrying the session id; then connect
\* returns, or it throws and the catch ends the response. `probe.phase` keeps
\* where the handler of each stream is. Responses close at any time and
\* message-posts arrive at any time.
Handlers(phase) == [kind |-> "sse", phase |-> phase]

SseGetRequests == SseRequests \cup {Request(Header("Bearer ", Garbage), NoHeader, DefaultSid)}

InitSse ==
    /\ server \in Servers
    /\ now = 0
    /\ tokens = (IF server = QB THEN {ConnectedRow("1"), ConnectedRow("2")} ELSE {})
    /\ activeTransports = {}
    /\ streams = <<>>
    /\ invs = <<>>
    /\ reconnects = 0
    /\ probe = Handlers(<<>>)

\* app.get("/sse") up to `await server.connect(transport)`
SseGet(r) ==
    /\ GetSse(r)
    /\ probe' = IF Len(streams') > Len(streams)
                THEN Handlers(Append(probe.phase, "registered"))
                ELSE probe

\* transport.start() inside server.connect: the headers and the endpoint event
\* with the session id go out on a response that is open
SseHandshake(sid) ==
    /\ sid \in 1..Len(streams)
    /\ probe.phase[sid] = "registered"
    /\ streams[sid].open
    /\ probe' = Handlers([probe.phase EXCEPT ![sid] = "announced"])
    /\ UNCHANGED core

\* server.connect resolves
SseConnected(sid) ==
    /\ sid \in 1..Len(streams)
    /\ probe.phase[sid] = "announced"
    /\ probe' = Handlers([probe.phase EXCEPT ![sid] = "connected"])
    /\ UNCHANGED core

\* server.connect rejects: the catch answers 500 or ends the response, and the
\* response's close event runs the close handler
SseConnectFailed(sid) ==
    /\ sid \in 1..Len(streams)
    /\ probe.phase[sid] \in {"registered", "announced"}
    /\ probe' = Handlers([probe.phase EXCEPT ![sid] = "failed"])
    /\ IF streams[sid].open
       THEN CloseStream(sid)
       ELSE UNCHANGED core

NextSse ==
    \/ \E r \in SseGetRequests : SseGet(r)
    \/ \E sid \in 1..MaxStreams : SseHandshake(sid)
    \/ \E sid \in 1..MaxStreams : SseConnected(sid)
    \/ \E sid \in 1..MaxStreams : SseConnectFailed(sid)
    \/ \E sid \in 1..MaxStreams : CloseStream(sid) /\ UNCHANGED probe
    \/ \E r \in CoreRequests : \E tool \in ToolsOf(server) :
          PostMessages(r, tool, MaxPosts) /\ UNCHANGED probe

SpecSse == InitSse /\ [][NextSse]_vars

(* ------------- one invocation while the store is written ------------- *)
\* One get_customer_by_id of tenant "1" whose access token may be stale, while
\* the tenant's record is rewritten by an OAuth reconnect or deleted.
InitReload ==
    /\ server = QB
    /\ now = 0
    /\ tokens = {ConnectedRow("1"), ConnectedRow("2")}
    /\ activeTransports = {1}
    /\ streams = <<Stream("1")>>
    /\ invs = <<>>
    /\ reconnects = 0
    /\ probe = Idle

NextReload ==
    \/ \E r \in CoreRequests : OwnToken(r) /\ PostMessages(r, "get_customer_by_id", 1) /\ UNCHANGED probe
    \/ QbLoad(1) /\ UNCHANGED probe
    \/ \E resp \in UpstreamResponses : QbFetch1(1, resp, TRUE) /\ UNCHANGED probe
    \/ \E data \in RefreshData(1, 1) \cup {RefreshFail} : QbRefresh(1, data) /\ UNCHANGED probe
    \/ QbUpsert(1) /\ UNCHANGED probe
    \/ QbReload(1) /\ UNCHANGED probe
    \/ \E resp \in UpstreamResponses : QbFetch2(1, resp, TRUE) /\ UNCHANGED probe
    \/ \E data \in ReconnectData, realmId \in ReconnectRealms : OAuthCallback(data, realmId) /\ UNCHANGED probe
    \/ \E u \in Tenants : Disconnect(u) /\ UNCHANGED probe

SpecReload == InitReload /\ [][NextReload]_vars

(* ------------------------- the backend's chat ------------------------ *)
\* The backend alone, at some time after the epoch: the record of its user 1 is
\* absent or in any form (with or without access token, refresh token and
\* expiry, the expiry before, at or after now); chats are posted, time passes,
\* and an OAuth reconnect may rewrite the record.
ChatTimes == 1..(MaxTime + 1)
ChatRows ==
    {{}} \cup {{TokenRow("1", "quickbooks", a, r, "realm1", e)} :
                  a \in {"", "a1"}, r \in {NULL, "r1"},
                  e \in {NullNum} \cup 1..(MaxTime + 3)}

\* a second passes on the backend's clock
ChatTick ==
    /\ now < MaxTime + 1
    /\ now' = now + 1
    /\ UNCHANGED <<server, tokens, activeTransports, streams, invs, reconnects>>

InitChat ==
    /\ server = QB
    /\ now \in ChatTimes
    /\ tokens \in ChatRows
    /\ activeTransports = {}
    /\ streams = <<>>
    /\ invs = <<>>
    /\ reconnects = 0
    /\ probe = Idle

NextChat ==
    \/ \E hasMessage \in BOOLEAN, llmOk \in BOOLEAN : PostChat(hasMessage, llmOk)
    \/ ChatTick /\ UNCHANGED probe
    \/ \E data \in ReconnectData, realmId \in ReconnectRealms : OAuthCallback(data, realmId) /\ UNCHANGED probe

SpecChat == InitChat /\ [][NextChat]_vars

(* --------------------- one request, any credentials ------------------- *)
\* One stream of tenant "1" is open (it may close, and time may pass); then one
\* request, with any header placement and any token, is handled as GET /sse or
\* as POST /messages, and `probe` keeps the request, the session requireSession
\* returned and the response that went out.
ValidToken(u) == Jwt(u, HP, "backend", MaxTime + 1, TRUE)
AuthTokens ==
    {Jwt(u, HP, "backend", e, TRUE) : u \in GoodUsers, e \in ExpTimes}
        \cup {Jwt(Num(1), a, i, MaxTime + 1, TRUE) : a \in Audiences, i \in Issuers}
        \cup {Jwt(Num(1), HP, "backend", MaxTime + 1, FALSE)}
        \cup {ValidToken(u) : u \in UserIdClaims}
        \cup {Garbage}
AuthHeaders ==
    {Header("Bearer ", t) : t \in AuthTokens}
        \cup {Header(p, ValidToken(Num(1))) : p \in Prefixes}
        \cup {NoHeader, EmptyHeader}
AuthRequests ==
    {Request(a, x, sid) : a \in AuthHeaders, x \in {NoHeader, EmptyHeader},
                           sid \in 0..MaxStreams}
        \cup {Request(a, x, sid) : a \in {NoHeader, EmptyHeader}, x \in AuthHeaders,
                                   sid \in 0..MaxStreams}
        \cup {Request(Header("Bearer ", t1), Header("Bearer ", t2), sid) :
                  t1 \in {Garbage, ValidToken(Num(1))},
                  t2 \in {Garbage, ValidToken(Str("2"))}, sid \in 0..MaxStreams}

Pending(r) == [kind |-> "pending", req |-> r, sess |-> NoCtx, res |-> FreshRes]

InitAuth ==
    /\ server \in Servers
    /\ now = 0
    /\ tokens = (IF server = QB THEN {ConnectedRow("1"), ConnectedRow("2")} ELSE {})
    /\ streams = <<Stream("1")>>
    /\ activeTransports = {1}
    /\ invs = <<>>
    /\ reconnects = 0
    /\ probe \in {Pending(r) : r \in AuthRequests}

AuthGetSse ==
    /\ probe.kind = "pending"
    /\ GetSse(probe.req)
    /\ probe' = [probe EXCEPT !.kind = "sse",
                              !.sess = requireSession(server, probe.req, FreshRes, now).ctx,
                              !.res = GetSseRes(probe.req)]

AuthPostMessages(tool) ==
    /\ probe.kind = "pending"
    /\ PostMessages(probe.req, tool, 1)
    /\ probe' = [probe EXCEPT !.kind = "post",
                              !.sess = requireSession(server, probe.req, FreshRes, now).ctx,
                              !.res = PostMessagesRes(probe.req)]

NextAuth ==
    \/ AuthGetSse
    \/ \E tool \in ToolsOf(server) : AuthPostMessages(tool)
    \/ probe.kind = "pending" /\ CloseStream(1) /\ UNCHANGED probe
    \/ probe.kind = "pending" /\ Tick /\ UNCHANGED probe

SpecAuth == InitAuth /\ [][NextAuth]_vars

\* the QuickBooks credential record of tenant u as getTokens returns it
Stored(u) == getTokens(tokens, u, "quickbooks")

(* ----------------------- the token store alone ------------------------ *)
\* Any sequence of upsertTokens and deleteTokens calls on a table that starts
\* empty; `probe` keeps the last call and the table it was applied to.
StoreProviders == {"quickbooks", "housecallpro"}
StoreArgs ==
    {UpsertArg(u, p, a, x[1], x[2], x[3]) :
        u \in Tenants, p \in StoreProviders, a \in {"a1", "a2"},
        x \in {<<Undef, Undef, UndefNum>>, <<"r1", "realm1", 1>>}}

StoreUpsert(arg) ==
    /\ tokens' = upsertTokens(tokens, arg)
    /\ probe' = [kind |-> "upsert", arg |-> arg, before |-> tokens]
    /\ UNCHANGED <<server, now, activeTransports, streams, invs, reconnects>>

StoreDelete(userId, provider) ==
    /\ tokens' = deleteTokens(tokens, userId, provider)
    /\ probe' = [kind |-> "delete",
                 arg |-> UpsertArg(userId, provider, "", Undef, Undef, UndefNum),
                 before |-> tokens]
    /\ UNCHANGED <<server, now, activeTransports, streams, invs, reconnects>>

InitStore ==
    /\ server = QB
    /\ now = 0
    /\ tokens = {}
    /\ activeTransports = {}
    /\ streams = <<>>
    /\ invs = <<>>
    /\ reconnects = 0
    /\ probe = Idle

NextStore ==
    \/ \E arg \in StoreArgs : StoreUpsert(arg)
    \/ \E u \in Tenants, p \in StoreProviders : StoreDelete(u, p)

SpecStore == InitStore /\ [][NextStore]_vars

(* ========================= token store (SpecStore) ==================== *)
RecordsOf(table, u, p) == {r \in table : r.user_id = u /\ r.provider = p}
OtherRecords(table, u, p) == table \ RecordsOf(table, u, p)
\* the record an upsert of arg must leave: what was omitted is null
RecordFor(arg) ==
    [user_id |-> arg.userId, provider |-> arg.provider,
     access_token |-> arg.access_token,
     refresh_token |-> IF arg.refresh_token = Undef THEN NULL ELSE arg.refresh_token,
     realm_id |-> IF arg.realmId = Undef THEN NULL ELSE arg.realmId,
     expires_at |-> IF arg.expires_at = UndefNum THEN NullNum ELSE arg.expires_at]

\* C9: after any sequence of upsertTokens and deleteTokens calls the table holds
\* at most one record per (user_id, provider); an upsert leaves for its key
\* exactly the record of its payload (omitted fields null) and no other key
\* changed, and repeating it changes nothing; a delete leaves no record for its
\* key and no other key changed.
TokenStoreKey ==
    /\ \A u \in Tenants, p \in StoreProviders : Cardinality(RecordsOf(tokens, u, p)) <= 1
    /\ probe.kind = "upsert" =>
          /\ RecordsOf(tokens, probe.arg.userId, probe.arg.provider) = {RecordFor(probe.arg)}
          /\ OtherRecords(tokens, probe.arg.userId, probe.arg.provider)
                = OtherRecords(probe.before, probe.arg.userId, probe.arg.provider)
          /\ upsertTokens(tokens, probe.arg) = tokens
    /\ probe.kind = "delete" =>
          /\ RecordsOf(tokens, probe.arg.userId, probe.arg.provider) = {}
          /\ OtherRecords(tokens, probe.arg.userId, probe.arg.provider)
                = OtherRecords(probe.before, probe.arg.userId, probe.arg.provider)

\* a second upsert for a key, with another access token and without the optional
\* fields the first one gave, beside a record of another key
TokenStoreKeyWitness ==
    /\ probe.kind = "upsert"
    /\ \E r \in probe.before :
          /\ r.user_id = probe.arg.userId /\ r.provider = probe.arg.provider
          /\ r.access_token # probe.arg.access_token
          /\ r.refresh_token # NULL
    /\ probe.arg.refresh_token = Undef
    /\ Cardinality(tokens) = 2
    /\ Stored(probe.arg.userId).access_token = probe.arg.access_token
    /\ Stored(probe.arg.userId).refresh_token = NULL

(* ==================== session verification (SpecAuth) ================= *)
\* SESSION_JWT_AUDIENCE of the backend: the audience POST /chat mints
SESSION_JWT_AUDIENCE == "mcp"
\* the audience a token for server srv carries: the Housecall Pro server names
\* its own, the QuickBooks server is handed the backend's
ExpectedAudience(srv) == IF srv = HP THEN HP ELSE SESSION_JWT_AUDIENCE

WasHandled == probe.kind \in {"sse", "post"}
\* the token text of the header the request is judged by
PresentedHeader(r) == IF r.authorization.kind = "value" THEN r.authorization ELSE r.xsession
PresentedToken(r) == StripBearer(PresentedHeader(r))

\* C1: a server accepts a request only if its token was minted for that server's
\* audience; a token with any other audience is rejected.
AudienceEnforced ==
    (WasHandled /\ probe.sess # NoCtx) =>
        PresentedToken(probe.req).aud = ExpectedAudience(server)

\* the reasons for which verification must fail at time t
NoUsableHeader(r) == PresentedHeader(r).kind # "value"
Malformed(r) == ~PresentedToken(r).wellFormed
BadSignature(r) == ~PresentedToken(r).sigOk
Expired(r, t) == PresentedToken(r).exp <= t
NoUserId(r) == FalsyClaim(PresentedToken(r).userId)
Defective(r, t) ==
    NoUsableHeader(r) \/ Malformed(r) \/ BadSignature(r) \/ Expired(r, t) \/ NoUserId(r)

OneUnauthorized == [sent |-> 1, status |-> 401, body |-> "invalid_session"]
\* nothing but the stream that was open before (or its closure) is there
NothingHappened ==
    /\ invs = <<>>
    /\ Len(streams) = 1
    /\ activeTransports \subseteq {1}
    /\ tokens = (IF server = QB THEN {ConnectedRow("1"), ConnectedRow("2")} ELSE {})

\* C6: a request whose header is missing or whose token is malformed, badly
\* signed, expired or without a truthy userId is refused by requireSession, and
\* every refused request is answered by exactly one 401 invalid_session and
\* leaves no trace: no transport, no registry entry, no invocation (so no bound
\* context and no Token Store call), on GET /sse and on POST /messages alike.
VerificationFailureOnce ==
    WasHandled =>
        /\ Defective(probe.req, now) => probe.sess = NoCtx
        /\ probe.sess = NoCtx => probe.res = OneUnauthorized /\ NothingHappened

\* a token that expired one second ago was presented and refused
VerificationFailureOnceWitness ==
    /\ WasHandled
    /\ PresentedToken(probe.req).wellFormed /\ PresentedToken(probe.req).sigOk
    /\ PresentedToken(probe.req).exp = now - 1
    /\ probe.res = OneUnauthorized

OpenSessions == {sid \in 1..Len(streams) : streams[sid].open}

\* C7: an authenticated POST /messages starts an invocation exactly when its
\* session id is registered by a stream that is open at that moment; for any
\* other session id (never opened, or closed) it is answered 400
\* no_active_transport and starts nothing; and the registry holds exactly the
\* session ids of the open streams, which a message-post never extends.
SessionRegistryGate ==
    /\ activeTransports = OpenSessions
    /\ (probe.kind = "post" /\ probe.sess # NoCtx) =>
          IF probe.req.sessionId \in OpenSessions
          THEN /\ probe.res = [sent |-> 1, status |-> 202, body |-> "Accepted"]
               /\ Len(invs) = 1 /\ invs[1].sid = probe.req.sessionId
          ELSE /\ probe.res = [sent |-> 1, status |-> 400, body |-> "no_active_transport"]
               /\ invs = <<>>

\* an authenticated message-post for the session of a stream that had closed
SessionRegistryGateWitness ==
    /\ probe.kind = "post" /\ probe.sess # NoCtx
    /\ probe.req.sessionId = 1 /\ ~streams[1].open
    /\ probe.res.status = 400

\* the request carries a session token that verified, as the tenant of stream
\* sid, when that stream was opened (the streams of InitAuth open at time 0)
OpenedWith(r, sid) ==
    requireSession(server, r, FreshRes, 0).ctx = streams[sid].tenant

\* C11: a message-post for the session id of a stream that is still open, which
\* carries the session token the stream was opened with, is handled under the
\* stream's identity, also after that token has expired.
BindingOutlivesToken ==
    (/\ probe.kind = "post"
     /\ probe.req.sessionId \in OpenSessions
     /\ OpenedWith(probe.req, probe.req.sessionId))
        => /\ probe.res.status = 202
           /\ Len(invs) = 1
           /\ invs[1].als = streams[probe.req.sessionId].tenant

\* the entries of kind e in the log of the current qbRequest of invocation v
EventsOf(v, e) == {k \in 1..Len(v.trace) : v.trace[k].e = e}
Kinds(v) == [k \in 1..Len(v.trace) |-> v.trace[k].e]

(* ===================== streams and contexts (Spec) ==================== *)
\* the identity verified when the stream of invocation v was opened
StreamIdentity(v) == streams[v.sid].tenant

\* C2: the context a qbRequest / hpRequest observes while handling a
\* message-post accepted for a stream's session id is the identity verified when
\* that stream was opened, whatever valid token the message-post carries.
OneIdentityPerStream ==
    \A i \in 1..Len(invs) :
        invs[i].ctx # NoCtx => invs[i].ctx = StreamIdentity(invs[i])

\* C8: every event delivered on a stream stems from a message-post that was
\* authenticated as the tenant who opened the stream; a message-post of another
\* tenant tagged with the stream's session id delivers nothing there.
NoCrossTenantDelivery ==
    \A sid \in 1..Len(streams) :
        \A d \in DeliveredOn(sid) : d.by = streams[sid].tenant

\* C10: when a tool handler that was in flight at the closure of its stream
\* enters its second qbRequest, that request fails with "Missing request
\* context".
ClosedStreamReleasesContext ==
    [][ \A i \in 1..Len(invs) :
           (~streams[invs[i].sid].open /\ invs[i].call = 1 /\ invs'[i].call = 2)
              => (invs'[i].pc = "done" /\ invs'[i].outcome = "Missing request context")
      ]_vars

\* invocation i's event went out in this step
DeliveredNow(i) ==
    /\ invs'[i].sent = "sent"
    /\ i > Len(invs) \/ invs[i].sent # "sent"

\* C12: the closure of a stream aborts none of its invocations: they keep their
\* place and go on to finish; an invocation's event goes out only while its own
\* stream is open, on that stream, and an event that was dropped is never
\* delivered later, on no stream.
LateResultsDiscarded ==
    [][ /\ streams' # streams => invs' = invs
        /\ \A i \in 1..Len(invs') :
              /\ DeliveredNow(i) => streams[invs'[i].sid].open
              /\ i <= Len(invs) =>
                    /\ invs'[i].sid = invs[i].sid
                    /\ invs[i].sent = "dropped" => invs'[i].sent = "dropped"
                    /\ (~streams[invs[i].sid].open /\ invs[i].pc # "done"
                           /\ invs'[i].pc = "done") => invs'[i].sent = "dropped"
      ]_vars

\* a call that was in flight when its stream closed was answered 200 and its
\* result was dropped
LateResultsDiscardedWitness ==
    \E i \in 1..Len(invs) :
        /\ ~streams[invs[i].sid].open
        /\ invs[i].outcome = "result"
        /\ invs[i].sent = "dropped"
        /\ DeliveredOn(invs[i].sid) = {}

(* ======================= tenant isolation (SpecRace) =================== *)
\* every record read and every record written by invocation v is keyed by the
\* tenant v started under (a read that finds no record returns none)
OwnRecordsOnly(v) ==
    \A k \in 1..Len(v.trace) :
        /\ v.trace[k].e = "get" => v.trace[k].user \in {v.als, NoRow.userId}
        /\ v.trace[k].e = "upsert" => v.trace[k].user = v.als

\* the step was taken by an invocation started under tenant u
StepOf(u) ==
    \E i \in 1..Len(invs) : invs[i].als = u /\ invs'[i] # invs[i]

\* C3: with one open stream per tenant and message-posts that carry their own
\* stream's token, in every interleaving of the invocations' store and HTTP
\* calls each getTokens and upsertTokens of a qbRequest is keyed by the tenant
\* the invocation started under, that is its stream's tenant, and a tenant's
\* record changes only in a step of that tenant's own invocation (or in the
\* backend's OAuth callback).
TenantIsolation ==
    [][ /\ \A i \in 1..Len(invs') :
              /\ OwnRecordsOnly(invs'[i])
              /\ invs'[i].ctx \in {NoCtx, streams[invs'[i].sid].tenant}
              /\ invs'[i].als = streams[invs'[i].sid].tenant
        /\ \A u \in Tenants :
              {r \in tokens' : r.user_id = u} # {r \in tokens : r.user_id = u}
                 => StepOf(u) \/ reconnects' # reconnects ]_vars

\* invocations of two tenants are in flight together, each having refreshed and
\* stored its credential
TenantIsolationWitness ==
    \E i, j \in 1..Len(invs) :
        /\ invs[i].als # invs[j].als
        /\ invs[i].pc = "reload" /\ invs[j].pc = "reload"
        /\ Stored(invs[i].als).access_token = NewAccessToken(i, 1)
        /\ Stored(invs[j].als).access_token = NewAccessToken(j, 1)

\* invocation i's refresh upsert is applied in this step
UpsertStep(i) == invs[i].pc = "upsert" /\ invs'[i].pc = "reload"
QbRecords(table, u) == {r \in table : r.user_id = u /\ r.provider = "quickbooks"}

\* C13: concurrent qbRequests of one tenant that are refused refresh
\* independently, each at most once; a tenant's record changes only when a
\* refresh upsert of that tenant (or an OAuth callback) is applied, and right
\* after an upsert the store holds exactly one record for the tenant, with
\* the access token, refresh token and expiry of that upsert: the upsert that
\* completes last wins.
LastUpsertWins ==
    [][ /\ \A i \in 1..Len(invs') : Cardinality(EventsOf(invs'[i], "refresh")) <= 1
        /\ \A i \in 1..Len(invs) :
              UpsertStep(i) =>
                 LET w == invs[i].payload
                 IN  /\ w.userId = invs[i].als
                     /\ QbRecords(tokens', w.userId) =
                           {TokenRow(w.userId, "quickbooks", w.access_token,
                                     w.refresh_token, w.realmId, w.expires_at)}
        /\ \A u \in Tenants :
              QbRecords(tokens', u) # QbRecords(tokens, u) =>
                 \/ \E i \in 1..Len(invs) : UpsertStep(i) /\ invs[i].als = u
                 \/ reconnects' # reconnects
      ]_vars

\* two requests of one tenant loaded the same access token, were both refused
\* and both refreshed; the one that started first stored its tokens last
LastUpsertWinsWitness ==
    /\ Len(invs) = 2
    /\ invs[1].als = invs[2].als
    /\ invs[1].pc = "done" /\ invs[2].pc = "done"
    /\ EventsOf(invs[1], "upsert") # {} /\ EventsOf(invs[2], "upsert") # {}
    /\ reconnects = 0
    /\ Stored(invs[1].als).access_token = NewAccessToken(1, 1)
    /\ Stored(invs[1].als).refresh_token = NewRefreshToken(1, 1)
    /\ invs[1].trace[1].tok = invs[2].trace[1].tok
    /\ invs[1].trace[2].resp = "401" /\ invs[2].trace[2].resp = "401"

(* ======================= refresh and retry (SpecSolo) ================= *)
\* the last upstream answer of v's current request
LastFetch(v) == v.trace[Len(v.trace)]
RetriedAndRefused(v) ==
    /\ Cardinality(EventsOf(v, "fetch")) = 2
    /\ LastFetch(v).e = "fetch"
    /\ isAuthError(LastFetch(v).resp)

\* C4: one qbRequest issues at most one refresh and at most two upstream calls,
\* and once the retried call is refused as an authorization failure the request
\* has ended with "Unauthorized after refresh", whatever the upstream answers.
RefreshOnce ==
    \A i \in 1..Len(invs) :
        LET v == invs[i]
        IN  /\ Cardinality(EventsOf(v, "refresh")) <= 1
            /\ Cardinality(EventsOf(v, "fetch")) <= 2
            /\ RetriedAndRefused(v) =>
                  v.pc = "done" /\ v.outcome = "Unauthorized after refresh"

RefreshOnceWitness ==
    \E i \in 1..Len(invs) :
        /\ RetriedAndRefused(invs[i])
        /\ invs[i].outcome = "Unauthorized after refresh"
        /\ Cardinality(EventsOf(invs[i], "refresh")) = 1

\* the current request of v met a 401 on its first call and has returned a
\* parsed 200 response
StaleThenServed(v) ==
    /\ Len(v.trace) >= 2
    /\ v.trace[2].e = "fetch" /\ v.trace[2].resp = "401"
    /\ LastFetch(v).e = "fetch" /\ LastFetch(v).resp = "ok"

\* C5: a qbRequest whose first call is answered 401 and which returns a parsed
\* 200 response has made, in this order, the load, the first call with the stored
\* token, one refresh, its upsert, a reload, and one retried call carrying the
\* new access token; the stored record then holds the new access token and the
\* realmId it had before.
RefreshAndRetry ==
    \A i \in 1..Len(invs) :
        LET v == invs[i]
            tr == v.trace
        IN  StaleThenServed(v) =>
               /\ Kinds(v) = <<"get", "fetch", "refresh", "upsert", "get", "fetch">>
               /\ tr[2].tok = tr[1].tok
               /\ tr[3].resp = "ok"
               /\ tr[4].tok = NewAccessToken(i, v.call) /\ tr[4].user = v.ctx
               /\ tr[5].tok = NewAccessToken(i, v.call) /\ tr[5].user = v.ctx
               /\ tr[6].tok = NewAccessToken(i, v.call)
               /\ tr[6].tok # tr[2].tok
               /\ Stored(v.ctx).access_token = NewAccessToken(i, v.call)
               /\ Stored(v.ctx).realmId = ConnectedRow(v.ctx).realm_id

RefreshAndRetryWitness ==
    \E i \in 1..Len(invs) :
        /\ StaleThenServed(invs[i])
        /\ invs[i].pc = "done" /\ invs[i].outcome = "result"
        /\ Stored(invs[i].ctx).access_token = NewAccessToken(i, invs[i].call)

\* the token endpoint refused the grant of v's current request
RefreshRefused(v) ==
    \E k \in EventsOf(v, "refresh") : v.trace[k].resp = "fail"

\* C14: once the token endpoint has refused the grant, the qbRequest has ended
\* with "QBO refresh failed": the refused grant is the last call it made, after
\* one upstream call, with no upsert, no retried call and no second refresh; and
\* the store changes in no step but the upsert of a granted refresh, so the
\* credential record is what it was before the request.
RefreshFailureFatal ==
    [][ /\ tokens' # tokens => \E i \in 1..Len(invs) : UpsertStep(i)
        /\ \A i \in 1..Len(invs') :
              LET v == invs'[i]
              IN  RefreshRefused(v) =>
                     /\ v.pc = "done" /\ v.outcome = "QBO refresh failed"
                     /\ Kinds(v) = <<"get", "fetch", "refresh">>
                     /\ getTokens(tokens', v.ctx, "quickbooks").access_token = v.trace[1].tok
      ]_vars

RefreshFailureFatalWitness ==
    \E i \in 1..Len(invs) :
        /\ RefreshRefused(invs[i])
        /\ invs[i].outcome = "QBO refresh failed"
        /\ invs[i].trace[2].resp = "401"
        /\ invs[i].trace[3].tok = "r1"
        /\ Stored(invs[i].ctx).access_token = "a1"

\* the last call of v's current request was an upstream call answered with a
\* failure that is no authorization failure
OtherUpstreamError(v) ==
    /\ Len(v.trace) >= 1
    /\ LastFetch(v).e = "fetch"
    /\ ~RespOk(LastFetch(v).resp)
    /\ server = QB => ~isAuthError(LastFetch(v).resp)

\* C15: an upstream failure that is no authorization failure ends the request at
\* once with the upstream error ("QBO error", "Housecall Pro API error"), on the
\* first call and on the retry; when it answers the first call, the request made
\* one upstream call and no refresh, and the record still holds the access token
\* that was loaded.
UpstreamErrorNotRetried ==
    \A i \in 1..Len(invs) :
        LET v == invs[i]
        IN  OtherUpstreamError(v) =>
               /\ v.pc = "done"
               /\ v.outcome = (IF server = QB THEN "QBO error" ELSE "Housecall Pro API error")
               /\ Cardinality(EventsOf(v, "fetch")) = 1 =>
                     /\ EventsOf(v, "refresh") = {} /\ EventsOf(v, "upsert") = {}
                     /\ Kinds(v) = (IF server = QB THEN <<"get", "fetch">> ELSE <<"fetch">>)
                     /\ server = QB => Stored(v.ctx).access_token = v.trace[1].tok

\* a retried call was answered 500 after a granted refresh
UpstreamErrorNotRetriedWitness ==
    \E i \in 1..Len(invs) :
        /\ OtherUpstreamError(invs[i])
        /\ LastFetch(invs[i]).resp = "500"
        /\ Cardinality(EventsOf(invs[i], "fetch")) = 2
        /\ invs[i].outcome = "QBO error"

\* the token endpoint granted invocation i's refresh in this step
GrantStep(i) == invs[i].pc = "refresh" /\ invs'[i].pc = "upsert"

\* what refreshWithQbo must store for tenant u and grant g, having used the loaded
\* record row: expiry now + expires_in when `timed`, else null
RefreshedRecord(u, g, row, timed) ==
    TokenRow(u, "quickbooks", g.access_token,
             IF g.refresh_token # Undef THEN g.refresh_token ELSE row.refresh_token,
             row.realmId,
             IF timed THEN now + g.expires_in ELSE NullNum)

ExpiresInGiven(g) == g.expires_in # UndefNum
ExpiresInTruthy(g) == g.expires_in # UndefNum /\ g.expires_in # 0

\* the upsert built at a grant is RefreshedRecord, and it is applied once, as it
\* was built, replacing the tenant's record
RefreshWrites(zeroCounts) ==
    \A i \in 1..Len(invs) :
        /\ GrantStep(i) =>
              TokenRow(invs'[i].payload.userId, invs'[i].payload.provider,
                       invs'[i].payload.access_token, invs'[i].payload.refresh_token,
                       invs'[i].payload.realmId, invs'[i].payload.expires_at)
                 = RefreshedRecord(invs[i].ctx, invs'[i].grant, invs[i].row,
                                   IF zeroCounts THEN ExpiresInGiven(invs'[i].grant)
                                   ELSE ExpiresInTruthy(invs'[i].grant))
        /\ UpsertStep(i) =>
              /\ QbRecords(tokens', invs[i].ctx) = {UpsertPayload(invs[i].payload)}
              /\ EventsOf(invs[i], "upsert") = {}
        /\ Cardinality(EventsOf(invs'[i], "upsert")) <= 1

\* C16 (as stated): a granted refresh writes exactly one upsert for the tenant,
\* holding the granted access token, the granted refresh token if one came and
\* else the one used, the loaded realmId, and expires_at = now + expires_in, or
\* null when no expires_in came.
RefreshContentAsStated == [][RefreshWrites(TRUE)]_vars

\* C16 (amended): the same, with expires_at = now + expires_in when expires_in
\* came and is not 0, and null when it is absent or 0.
RefreshContent == [][RefreshWrites(FALSE)]_vars

\* a grant that rotated the refresh token and gave expires_in was stored
RefreshContentWitness ==
    \E i \in 1..Len(invs) :
        /\ invs[i].pc = "reload"
        /\ invs[i].grant.refresh_token = NewRefreshToken(i, invs[i].call)
        /\ invs[i].grant.expires_in = 1
        /\ Stored(invs[i].ctx).refresh_token = NewRefreshToken(i, invs[i].call)
        /\ Stored(invs[i].ctx).expires_at = now + 1

\* the record getTokens returns for tenant u does not make a connection
NotConnected(table, u) ==
    LET row == getTokens(table, u, "quickbooks")
    IN  row = NoRow \/ Falsy(row.access_token) \/ Falsy(row.realmId)

\* invocation i gets the answer of its getTokens in this step
LoadStep(i) == invs[i].pc = "load" /\ invs'[i] # invs[i]

\* C17: a qbRequest whose getTokens returns no record, or a record without access
\* token or without realmId, ends at once with "QuickBooks not connected": the
\* load is the only call it made (no upstream call, no refresh, no upsert) and
\* the store is what it was; and no qbRequest ends so in any other way.
NotConnectedFirst ==
    [][ \A i \in 1..Len(invs) :
           /\ LoadStep(i) /\ NotConnected(tokens, invs[i].ctx) =>
                  /\ invs'[i].pc = "done"
                  /\ invs'[i].outcome = "QuickBooks not connected"
                  /\ Kinds(invs'[i]) = <<"get">>
                  /\ tokens' = tokens
           /\ invs'[i].outcome = "QuickBooks not connected" /\ invs[i].outcome = "" =>
                  LoadStep(i) /\ NotConnected(tokens, invs[i].ctx)
      ]_vars

NotConnectedFirstWitness ==
    \E i \in 1..Len(invs) :
        /\ invs[i].outcome = "QuickBooks not connected"
        /\ Kinds(invs[i]) = <<"get">>
        /\ Stored(invs[i].ctx) # NoRow
        /\ Stored(invs[i].ctx).access_token = "a1"
        /\ Stored(invs[i].ctx).realmId = NULL

(* ================= one call, any ambient context (SpecCall) =========== *)
\* invocation i enters a qbRequest or an hpRequest in this step: it is called, or
\* update_customer goes on to its second request
EntryStep(i) ==
    \/ i = Len(invs') /\ Len(invs') = Len(invs) + 1
    \/ i \in 1..Len(invs) /\ invs'[i].call = invs[i].call + 1

\* C18: a qbRequest or hpRequest entered with no context bound has ended, in the
\* step that entered it, with "Missing request context", having made no Token
\* Store call and no HTTP call, and the store is what it was; a request entered
\* with a context bound never ends so.
MissingContextFirst ==
    [][ \A i \in 1..Len(invs') :
           /\ EntryStep(i) /\ getStore(invs'[i]) = NoCtx =>
                  /\ invs'[i].pc = "done"
                  /\ invs'[i].outcome = "Missing request context"
                  /\ invs'[i].trace = <<>>
                  /\ tokens' = tokens
           /\ EntryStep(i) /\ getStore(invs'[i]) # NoCtx =>
                  /\ invs'[i].pc \in {"load", "hpfetch"}
                  /\ invs'[i].ctx = getStore(invs'[i])
           /\ invs'[i].outcome = "Missing request context" => getStore(invs'[i]) = NoCtx
      ]_vars

MissingContextFirstWitness ==
    \E i \in 1..Len(invs) :
        /\ getStore(invs[i]) = NoCtx
        /\ invs[i].outcome = "Missing request context"
        /\ invs[i].trace = <<>>
        /\ invs[i].sent = "sent"

(* ================== one invocation, any answer (SpecSolo) ============= *)
\* C19: a qbRequest that ends with "Unauthorized after refresh" has made the
\* load, the first call, one granted refresh, its one upsert, the reload and the
\* retried call; the record of (tenant, "quickbooks") is then in the store and
\* is the one that upsert wrote, with an access token and a realmId. No step
\* of a request removes a record, and the store changes in no step but the
\* upsert of a granted refresh.
UnauthorizedKeepsCredential ==
    [][ /\ \A u \in Tenants : Cardinality(QbRecords(tokens', u)) >= Cardinality(QbRecords(tokens, u))
        /\ \A i \in 1..Len(invs) :
              \/ QbRecords(tokens', invs[i].ctx) = QbRecords(tokens, invs[i].ctx)
              \/ UpsertStep(i)
        /\ \A i \in 1..Len(invs') :
              LET v == invs'[i]
                  rec == getTokens(tokens', getStore(v), "quickbooks")
              IN  v.outcome = "Unauthorized after refresh" =>
                     /\ Kinds(v) = <<"get", "fetch", "refresh", "upsert", "get", "fetch">>
                     /\ rec # NoRow
                     /\ rec.userId = getStore(v)
                     /\ rec.access_token = v.trace[4].tok
                     /\ rec.access_token = NewAccessToken(i, v.call)
                     /\ ~Falsy(rec.refresh_token)
                     /\ ~Falsy(rec.realmId)
      ]_vars

UnauthorizedKeepsCredentialWitness ==
    \E i \in 1..Len(invs) :
        /\ invs[i].outcome = "Unauthorized after refresh"
        /\ isAuthError(LastFetch(invs[i]).resp)
        /\ Stored(getStore(invs[i])).access_token = NewAccessToken(i, invs[i].call)
        /\ Stored(getStore(invs[i])).access_token # ConnectedRow(getStore(invs[i])).access_token

(* ============== calls one after another (SpecCall), continued ========= *)
\* the ways a tool invocation fails
ToolErrors ==
    {"Missing request context", "QuickBooks not connected", "QBO refresh failed",
     "Unauthorized after refresh", "QBO error", "Housecall Pro API error"}

\* invocation i ends with one of them in this step
FailStep(i) ==
    /\ invs'[i].pc = "done"
    /\ invs'[i].outcome \in ToolErrors
    /\ i > Len(invs) \/ invs[i].pc # "done"

\* the message-posts a client of stream sid sends with its own token
OwnPosts(sid) == {r \in CoreRequests : r.sessionId = sid /\ OwnToken(r)}

\* C20: the step in which a tool invocation fails (missing context, not
\* connected, refresh failed, unauthorized after refresh, upstream error) leaves
\* the streams and activeTransports as they were; if the invocation's stream is
\* open the failure is written to it as an error event; and if its session id
\* is registered, a message-post for that session is answered 202 afterwards.
ToolErrorsKeepStream ==
    [][ \A i \in 1..Len(invs') :
           \A sid \in 1..Len(streams) :
              FailStep(i) /\ invs'[i].sid = sid =>
                  /\ streams' = streams
                  /\ activeTransports' = activeTransports
                  /\ streams[sid].open =>
                         /\ invs'[i].sent = "sent"
                         /\ [by |-> invs'[i].als, error |-> TRUE] \in DeliveredOn(sid)'
                  /\ sid \in activeTransports =>
                         \A r \in OwnPosts(sid) :
                            PostMessagesRes(r)' = Send(FreshRes, 202, "Accepted")
      ]_vars

\* two failures have been delivered on the stream, which is still open and
\* registered; the second belongs to a message-post that came after the first
ToolErrorsKeepStreamWitness ==
    /\ Len(invs) = 2
    /\ invs[1].outcome = "Unauthorized after refresh"
    /\ invs[1].sent = "sent"
    /\ getStore(invs[2]) = streams[1].tenant
    /\ invs[2].outcome = "QBO refresh failed"
    /\ invs[2].sent = "sent"
    /\ Cardinality(DeliveredOn(1)) >= 1
    /\ streams[1].open
    /\ 1 \in activeTransports

(* ============ one request, any credentials (SpecAuth), continued ====== *)
\* header h is absent or the empty string
Blank(h) == h.kind \in {"absent", "empty"}
\* header h is a session token the server verifies at time t, bare or behind
\* "Bearer " in any case
CarriesSession(h, t) ==
    /\ h.kind = "value"
    /\ h.prefix \in {"", "Bearer ", "bearer ", "BEARER "}
    /\ LET o == VerifyOptions(server)
       IN  JwtVerify(h.tok, t, o.checkAud, o.aud, o.checkIss, o.iss)
    /\ ~FalsyClaim(h.tok.userId)

\* C21: a request is judged by its Authorization header when that is non-empty
\* and by its X-Session header otherwise, a leading "Bearer " in any case being
\* stripped; so a request with a valid session token in one of the two headers,
\* the other being absent or empty, is accepted as the token's user.
HeaderPrecedence ==
    WasHandled =>
        LET a == probe.req.authorization
            x == probe.req.xsession
        IN  /\ ~Blank(a) => (probe.sess # NoCtx <=> CarriesSession(a, now))
            /\ Blank(a) => (probe.sess # NoCtx <=> CarriesSession(x, now))
            /\ CarriesSession(a, now) /\ Blank(x) => probe.sess = ToStringClaim(a.tok.userId)
            /\ CarriesSession(x, now) /\ Blank(a) => probe.sess = ToStringClaim(x.tok.userId)

\* a token in X-Session behind an upper-case prefix, next to an empty
\* Authorization header, was accepted
HeaderPrecedenceWitness ==
    /\ WasHandled
    /\ probe.req.authorization = EmptyHeader
    /\ probe.req.xsession.kind = "value"
    /\ probe.req.xsession.prefix = "BEARER "
    /\ probe.sess = "1"

\* the token request r presents is one the server does not verify at time t:
\* none, no JWT, badly signed, expired, without a userId, or (Housecall Pro) with
\* another audience or issuer
InvalidSession(r, t) ==
    \/ Defective(r, t)
    \/ /\ server = HP
       /\ \/ PresentedToken(r).aud # HP
          \/ PresentedToken(r).iss # SESSION_JWT_ISSUER

\* C22: a POST /messages with an invalid or expired token is answered 401
\* invalid_session, once, whether its session id is registered or not (so never
\* 400 no_active_transport), and no tool invocation is started for it.
AuthenticationBeforeLookup ==
    (probe.kind = "post" /\ InvalidSession(probe.req, now)) =>
        /\ probe.sess = NoCtx
        /\ probe.res = OneUnauthorized
        /\ invs = <<>>

\* an expired token was posted for a session id that is not registered
AuthenticationBeforeLookupWitness ==
    /\ probe.kind = "post"
    /\ PresentedToken(probe.req).sigOk
    /\ Expired(probe.req, now)
    /\ probe.req.sessionId \notin activeTransports
    /\ probe.res.status = 401

(* ============ one invocation, any answer (SpecSolo), continued ======== *)
\* the first upstream call of invocation i's request is answered in this step
FirstAnswerStep(i) == invs[i].pc = "fetch1" /\ invs'[i] # invs[i]

\* C23: when the first upstream call is refused (401, or 400 with code 3100) and
\* the loaded record has no refresh token, the qbRequest ends there with the
\* upstream error: one load and one upstream call, no refresh call, no upsert,
\* no retry, and the store is what it was.
NoRefreshTokenNoRefresh ==
    [][ \A i \in 1..Len(invs) :
           (/\ FirstAnswerStep(i)
            /\ Falsy(invs[i].row.refresh_token)
            /\ invs'[i].trace # <<>>
            /\ isAuthError(LastFetch(invs'[i]).resp)) =>
              /\ invs'[i].pc = "done"
              /\ invs'[i].outcome = "QBO error"
              /\ Kinds(invs'[i]) = <<"get", "fetch">>
              /\ invs'[i].trace[2].tok = invs[i].row.access_token
              /\ tokens' = tokens
      ]_vars

NoRefreshTokenNoRefreshWitness ==
    \E i \in 1..Len(invs) :
        /\ invs[i].outcome = "QBO error"
        /\ Kinds(invs[i]) = <<"get", "fetch">>
        /\ invs[i].trace[2].resp = "400_3100"
        /\ Stored(getStore(invs[i])) = normalize(BareRow(getStore(invs[i])))

(* ================= Housecall Pro, two tenants (SpecHp) ================ *)
\* the upstream requests invocation v has issued: what was called and the
\* credential that authenticated it
IssuedRequests(v) == [k \in 1..Len(v.trace) |-> <<v.trace[k].e, v.trace[k].tok>>]

\* C24: two hpRequests of the same tool that have both got their answer, bound
\* to whichever tenants, have issued the same upstream request, authenticated
\* with HP_API_KEY; an hpRequest makes no Token Store call and no step changes
\* the store; and an hpRequest issues its call exactly when a context is bound.
HpTenantIndependent ==
    [][ /\ tokens' = tokens
        /\ \A i \in 1..Len(invs') :
              /\ EventsOf(invs'[i], "get") = {} /\ EventsOf(invs'[i], "upsert") = {}
              /\ invs'[i].pc = "done" =>
                     IssuedRequests(invs'[i]) =
                        IF getStore(invs'[i]) = NoCtx THEN <<>>
                        ELSE <<(<<"fetch", "HP_API_KEY">>)>>
              /\ \A j \in 1..Len(invs') :
                     (/\ invs'[i].tool = invs'[j].tool
                      /\ invs'[i].pc = "done" /\ invs'[j].pc = "done"
                      /\ getStore(invs'[i]) # NoCtx /\ getStore(invs'[j]) # NoCtx) =>
                        IssuedRequests(invs'[i]) = IssuedRequests(invs'[j])
      ]_vars

\* the two tenants have each had a call answered
HpTenantIndependentWitness ==
    /\ Len(invs) = 2
    /\ getStore(invs[1]) = "1" /\ getStore(invs[2]) = "2"
    /\ invs[1].pc = "done" /\ invs[2].pc = "done"
    /\ invs[1].trace[1].tok = "HP_API_KEY"
    /\ invs[2].trace[1].tok = "HP_API_KEY"
    /\ invs[1].trace[1].user # invs[2].trace[1].user

(* ========== concurrent refreshes and the store (SpecRace), continued == *)
\* C25: the upsert of a refresh leaves the realmId of a record that an OAuth
\* reconnect has written as the reconnect wrote it.
RefreshKeepsReconnect ==
    [][ \A i \in 1..Len(invs) :
           (UpsertStep(i) /\ Stored(invs[i].ctx).realmId \in ReconnectRealms) =>
              getTokens(tokens', invs[i].ctx, "quickbooks").realmId
                 = Stored(invs[i].ctx).realmId
      ]_vars

(* ================== GET /sse, step by step (SpecSse) ================== *)
\* the streams whose response has not closed; each was set up by a GET /sse
\* that requireSession let through, for the tenant of its token
UnclosedStreams == {sid \in 1..Len(streams) : streams[sid].open}

\* C26: every session id in activeTransports is that of a stream set up by a
\* verified GET /sse (for one of the tenants a token can name) whose response has
\* not closed; and a stream whose server.connect failed is not registered.
RegistryInvariant ==
    /\ activeTransports \subseteq UnclosedStreams
    /\ \A sid \in activeTransports : streams[sid].tenant \in Tenants
    /\ \A sid \in 1..Len(streams) :
          probe.phase[sid] = "failed" => sid \notin activeTransports /\ ~streams[sid].open

\* one stream failed in server.connect after its handshake, another is open
RegistryInvariantWitness ==
    /\ Len(streams) = 2
    /\ probe.phase[1] = "failed"
    /\ probe.phase[2] = "connected"
    /\ activeTransports = {2}

\* the streams whose handshake, carrying their session id, has gone out
Announced == {sid \in 1..Len(streams) : probe.phase[sid] \in {"announced", "connected"}}

\* C27: a stream is registered from the step that sets it up, before its
\* handshake goes out, until its response closes; so while a stream whose
\* handshake has gone out is open, a message-post with a verified token and that
\* session id is answered 202, not 400 no_active_transport.
RegisteredBeforeHandshake ==
    /\ UnclosedStreams \subseteq activeTransports
    /\ \A sid \in Announced :
          streams[sid].open =>
             \A r \in CoreRequests :
                r.sessionId = sid => PostMessagesRes(r) = Send(FreshRes, 202, "Accepted")

\* a message-post for a stream whose handshake is out but whose connect has not
\* returned yet has started a tool invocation
RegisteredBeforeHandshakeWitness ==
    /\ Len(invs) = 1
    /\ invs[1].sid \in Announced
    /\ probe.phase[invs[1].sid] = "announced"
    /\ streams[invs[1].sid].open

(* ======= one invocation while the store is written (SpecReload) ======= *)
\* invocation i gets the answer of its second getTokens in this step
ReloadStep(i) == invs[i].pc = "reload" /\ invs'[i] # invs[i]

\* C28: after a granted refresh the qbRequest reads the record again and retries
\* with the access token it finds there, whatever the token endpoint returned;
\* if it finds no record, or none with an access token, it ends with "Refresh
\* succeeded but no access token" having made one upstream call only.
RetryUsesStoredToken ==
    [][ \A i \in 1..Len(invs) :
           /\ ReloadStep(i) =>
                 IF Stored(invs[i].ctx) = NoRow \/ Falsy(Stored(invs[i].ctx).access_token)
                 THEN /\ invs'[i].pc = "done"
                      /\ invs'[i].outcome = "Refresh succeeded but no access token"
                      /\ Kinds(invs'[i]) = <<"get", "fetch", "refresh", "upsert", "get">>
                 ELSE /\ invs'[i].pc = "fetch2"
                      /\ invs'[i].tok = Stored(invs[i].ctx).access_token
           /\ (invs[i].pc = "fetch2" /\ invs'[i] # invs[i]) =>
                 /\ Kinds(invs'[i]) = <<"get", "fetch", "refresh", "upsert", "get", "fetch">>
                 /\ invs'[i].trace[6].tok = invs[i].tok
           /\ invs'[i].outcome = "Refresh succeeded but no access token" /\ invs[i].outcome = "" =>
                 ReloadStep(i)
      ]_vars

\* the record was deleted between the upsert of the refresh and the reload
RetryUsesStoredTokenWitness ==
    \E i \in 1..Len(invs) :
        /\ invs[i].outcome = "Refresh succeeded but no access token"
        /\ Kinds(invs[i]) = <<"get", "fetch", "refresh", "upsert", "get">>
        /\ invs[i].trace[4].tok = NewAccessToken(i, 1)
        /\ Stored(getStore(invs[i])) = NoRow

(* ==================== the backend's chat (SpecChat) =================== *)
\* the record of the backend's user has an access token and an expiry that is
\* null or later than t
UsableCredential(table, t) ==
    LET row == getTokens(table, "1", "quickbooks")
    IN  /\ row # NoRow
        /\ ~Falsy(row.access_token)
        /\ row.expires_at = NullNum \/ row.expires_at > t

ChatStep == probe' # probe /\ probe'.kind = "chat"

\* C29: a POST /chat mints a session token and calls the LLM API only when the
\* stored record has an access token and an expiry that is null or later than
\* now; otherwise it answers 400, mints nothing and calls nothing; and it never
\* writes the store, so an expired record blocks the chat even when it holds a
\* refresh token.
ChatGate ==
    [][ ChatStep =>
           /\ tokens' = tokens
           /\ (probe'.minted # Garbage \/ probe'.llm) => UsableCredential(tokens, now)
           /\ ~UsableCredential(tokens, now) =>
                  probe'.status = 400 /\ probe'.minted = Garbage /\ ~probe'.llm
           /\ probe'.minted # Garbage =>
                  /\ probe'.llm
                  /\ JwtVerify(probe'.minted, now, TRUE, SESSION_JWT_AUDIENCE, TRUE, "backend")
      ]_vars

\* a chat was refused while the record held an access token that expired just
\* now and a refresh token
ChatGateWitness ==
    /\ probe.kind = "chat"
    /\ probe.status = 400
    /\ Stored("1").access_token = "a1"
    /\ Stored("1").refresh_token = "r1"
    /\ Stored("1").expires_at = now

(* ========= one invocation, every call returning (SpecSoloFair) ======== *)
\* the ways the claim says a qbRequest ends
StatedOutcomes ==
    {"result", "Missing request context", "QuickBooks not connected",
     "QBO refresh failed", "Refresh succeeded but no access token",
     "Unauthorized after refresh", "QBO error"}

\* how the last qbRequest of invocation v ended (update_customer throws its own
\* error after its first qbRequest has returned a parsed result)
RequestOutcome(v) ==
    IF v.outcome = "Could not fetch existing customer or SyncToken." THEN "result"
    ELSE v.outcome

\* the calls the current qbRequest of v has made stay within the bound
BoundedCalls(v) ==
    /\ Cardinality(EventsOf(v, "get")) <= 2
    /\ Cardinality(EventsOf(v, "upsert")) <= 1
    /\ Cardinality(EventsOf(v, "refresh")) <= 1
    /\ Cardinality(EventsOf(v, "fetch")) <= 2

\* every qbRequest stays within the bound and ends, in one of `outcomes`
EndsWithin(outcomes) ==
    /\ [](\A i \in 1..Len(invs) :
            server = QB =>
               /\ BoundedCalls(invs[i])
               /\ invs[i].pc = "done" => RequestOutcome(invs[i]) \in outcomes)
    /\ (Len(invs) = 1) ~> (Len(invs) = 1 /\ invs[1].pc = "done")

\* C30 as stated: the seven outcomes
QbRequestEndsAsStated == EndsWithin(StatedOutcomes)

\* C30: provided every Token Store call and HTTP call returns, a qbRequest ends
\* after at most two getTokens, one upsertTokens, one refresh call and two
\* upstream calls, in a parsed result, missing request context, not connected,
\* refresh failed, refresh succeeded but no access token, unauthorized after
\* refresh, an upstream error, or the SyntaxError of a 200 answer (of the API or
\* of the token endpoint) whose body is not JSON.
QbRequestEnds == EndsWithin(StatedOutcomes \cup {"SyntaxError"})

\* a request that made every call it can make ended on a retried call whose
\* 200 answer was not JSON
QbRequestEndsWitness ==
    \E i \in 1..Len(invs) :
        /\ server = QB
        /\ invs[i].pc = "done"
        /\ invs[i].outcome = "SyntaxError"
        /\ Kinds(invs[i]) = <<"get", "fetch", "refresh", "upsert", "get", "fetch">>
        /\ LastFetch(invs[i]).resp = "ok_notJson"

====
